---- MODULE Spec2Model ----
(***************************************************************************)
(* Model of UX Pilot: the design-token generator                           *)
(* (src/src/knowledge/design-tokens.ts), the six capabilities and the      *)
(* LLM client they share, the orchestrator UXPilot and the handler of an   *)
(* MCP tool call (src/src/mcp/server.ts).                                  *)
(*                                                                         *)
(* Spec has a caller invoke one operation at a time and keeps what the     *)
(* invocation returned, threw, sent to the model and did, in order.        *)
(* PilotSpec has several callers with execute calls in progress on one     *)
(* UXPilot, interleaved at the await of loadCapability.                    *)
(*                                                                         *)
(* Numbers.  JavaScript numbers are IEEE doubles; the model computes with  *)
(* exact decimal fractions, each quantity carried as an integer numerator  *)
(* over a denominator named in its definition.  Math.round is modelled as  *)
(* floor(x + 1/2) on the exact value, which is what it does to the double  *)
(* it is given.  The two agree except where the exact decimal value lies   *)
(* precisely on a rounding tie and the double product does not (for        *)
(* example 45 * 0.7 is 31.499999999999996 as a double): there the code may *)
(* yield the neighbouring integer.  No property below depends on the       *)
(* direction in which such a tie is broken.                                *)
(*                                                                         *)
(* Strings are sequences of one-character strings, so that formatting      *)
(* (toString(16), padStart, toFixed, the regex replaces) is computed       *)
(* rather than assumed.                                                    *)
(***************************************************************************)
EXTENDS Integers, Sequences, FiniteSets, TLC

VARIABLES
    call,       \* the operation last invoked and its arguments
    ret,        \* what that invocation returned
    hslCalls,   \* the arguments handed to hslToHex during that invocation
    err,        \* the error that invocation threw, NoError when it returned
    llmCalls,   \* the requests that invocation sent to the language model,
                \* each with the reply it got
    tables,     \* the module-level tables of design-tokens.ts, which every
                \* call reads: STANDARD_COLOR_SHADES and TYPE_SCALE_RATIOS
    events,     \* the steps of that invocation, in the order they were taken
    capabilities,   \* the cache of one UXPilot instance: for each
                    \* capability id the instance cached, 0 when none is
    constructed,    \* for each capability id, how many instances that
                    \* UXPilot has constructed so far
    callers     \* the execute calls in progress on that UXPilot, one per
                \* caller: where each stands and the instance it runs on

callVars == <<call, ret, hslCalls, err, llmCalls, tables, events>>

pilotVars == <<capabilities, constructed, callers>>

vars == <<call, ret, hslCalls, err, llmCalls, tables, events,
          capabilities, constructed, callers>>

\* No exception: the invocation returned normally (or none was made).
NoError == [name |-> "", code |-> ""]

(***************************************************************************)
(* Bounds of the input samples.                                            *)
(***************************************************************************)
HueStep == 30       \* sampled hues are the multiples of HueStep in [0,360)
SatDen == 2         \* saturations are given in units of 1/SatDen percent
SatStep == 7        \* sampled saturations are the multiples of SatStep units
LightStep == 10     \* sampled lightness values for direct hslToHex calls

Hues == {h \in 0..359 : h % HueStep = 0} \cup {1, 29, 31, 119, 121, 359}

Saturations ==
    {s \in 0..(100 * SatDen) : s % SatStep = 0}
        \cup {0, SatDen, 45 * SatDen, 50 * SatDen, 100 * SatDen}

WholeSaturations == {s \in 0..100 : s % SatStep = 0} \cup {0, 1, 50, 100}

Lightnesses == {l \in 0..100 : l % LightStep = 0} \cup {0, 15, 50, 97, 100}

(***************************************************************************)
(* Number formatting.                                                      *)
(***************************************************************************)
DigitChars ==
    <<"0", "1", "2", "3", "4", "5", "6", "7", "8", "9",
      "a", "b", "c", "d", "e", "f">>

Min(a, b) == IF a <= b THEN a ELSE b

Max(a, b) == IF a >= b THEN a ELSE b

\* Math.round(num/den) for den > 0: the integer floor(num/den + 1/2).
MathRound(num, den) == (2 * num + den) \div (2 * den)

RECURSIVE NatToString(_, _)
NatToString(n, radix) ==
    IF n < radix
        THEN <<DigitChars[n + 1]>>
        ELSE NatToString(n \div radix, radix) \o <<DigitChars[(n % radix) + 1]>>

\* Number.prototype.toString(radix) of an integer.
NumberToString(n, radix) ==
    IF n < 0 THEN <<"-">> \o NatToString(-n, radix) ELSE NatToString(n, radix)

RECURSIVE PadStart(_, _, _)
\* String.prototype.padStart(targetLength, padString) for a one-character pad.
PadStart(str, targetLength, pad) ==
    IF Len(str) >= targetLength
        THEN str
        ELSE PadStart(<<pad>> \o str, targetLength, pad)

(***************************************************************************)
(* Exact arithmetic on naturals too large for a machine integer: a number  *)
(* is the sequence of its base-1000 digits, least significant first, with  *)
(* no leading zero digit (zero is the empty sequence).  It carries the     *)
(* exact value of base * ratio^exponent, which the code holds in a double. *)
(***************************************************************************)
RECURSIVE BigFromNat(_)
BigFromNat(n) ==
    IF n = 0 THEN <<>> ELSE <<n % 1000>> \o BigFromNat(n \div 1000)

RECURSIVE BigToNat(_)
BigToNat(x) ==
    IF x = <<>> THEN 0 ELSE Head(x) + 1000 * BigToNat(Tail(x))

RECURSIVE BigTrim(_)
BigTrim(x) ==
    IF x # <<>> /\ x[Len(x)] = 0 THEN BigTrim(SubSeq(x, 1, Len(x) - 1)) ELSE x

RECURSIVE BigMulCarry(_, _, _)
BigMulCarry(x, m, carry) ==
    IF x = <<>>
        THEN BigFromNat(carry)
        ELSE LET t == Head(x) * m + carry
             IN  <<t % 1000>> \o BigMulCarry(Tail(x), m, t \div 1000)

\* x * m for a machine integer m >= 0.
BigMul(x, m) == BigTrim(BigMulCarry(x, m, 0))

RECURSIVE BigAddCarry(_, _, _)
BigAddCarry(x, y, carry) ==
    IF x = <<>> /\ y = <<>>
        THEN BigFromNat(carry)
        ELSE LET a == IF x = <<>> THEN 0 ELSE Head(x)
                 b == IF y = <<>> THEN 0 ELSE Head(y)
                 t == a + b + carry
             IN  <<t % 1000>>
                     \o BigAddCarry(IF x = <<>> THEN x ELSE Tail(x),
                                    IF y = <<>> THEN y ELSE Tail(y),
                                    t \div 1000)

BigAdd(x, y) == BigAddCarry(x, y, 0)

RECURSIVE BigDivRem(_, _, _)
\* Long division from the most significant digit: the digits of the quotient.
BigDivRem(x, d, rem) ==
    IF x = <<>>
        THEN <<>>
        ELSE LET t == rem * 1000 + x[Len(x)]
             IN  BigDivRem(SubSeq(x, 1, Len(x) - 1), d, t % d) \o <<t \div d>>

\* floor(x / d) for a machine integer d > 0.
BigDiv(x, d) == BigTrim(BigDivRem(x, d, 0))

RECURSIVE BigProduct(_)
\* The product of a sequence of machine integers.
BigProduct(factors) ==
    IF factors = <<>>
        THEN <<1>>
        ELSE BigMul(BigProduct(Tail(factors)), Head(factors))

RECURSIVE BigDivAll(_, _)
\* floor(x / (d1 * d2 * ...)), dividing by one factor at a time.
BigDivAll(x, divisors) ==
    IF divisors = <<>>
        THEN x
        ELSE BigDivAll(BigDiv(x, Head(divisors)), Tail(divisors))

\* Math.round of the quotient (product of numer) / (product of denom), both
\* sequences of machine integers, the quotient being >= 0:
\* floor((2 * N + D) / (2 * D)).
MathRoundQuotient(numer, denom) ==
    BigToNat(BigDivAll(BigAdd(BigMul(BigProduct(numer), 2), BigProduct(denom)),
                       <<2>> \o denom))

(***************************************************************************)
(* Color scale.                                                            *)
(***************************************************************************)
STANDARD_COLOR_SHADES_swapped ==
    << [shade |-> 50,  lightness |-> 97],
       [shade |-> 100, lightness |-> 93],
       [shade |-> 200, lightness |-> 85],
       [shade |-> 300, lightness |-> 74],
       [shade |-> 400, lightness |-> 62],
       [shade |-> 500, lightness |-> 50],
       [shade |-> 600, lightness |-> 41],
       [shade |-> 800, lightness |-> 24],
       [shade |-> 700, lightness |-> 33],
       [shade |-> 900, lightness |-> 15] >>

STANDARD_COLOR_SHADES ==
    << [shade |-> 50,  lightness |-> 97],
       [shade |-> 100, lightness |-> 93],
       [shade |-> 200, lightness |-> 85],
       [shade |-> 300, lightness |-> 74],
       [shade |-> 400, lightness |-> 62],
       [shade |-> 500, lightness |-> 50],
       [shade |-> 600, lightness |-> 41],
       [shade |-> 700, lightness |-> 33],
       [shade |-> 800, lightness |-> 24],
       [shade |-> 900, lightness |-> 15] >>

\* The channel f(n) of hslToHex without padding (a two-digit channel is lost).
hslChannel_noPad(h, s, l, n) ==
    LET a     == s * Min(l, 100 - l)
        k     == (30 * n + h) % 360
        m     == Max(Min(Min(k - 90, 270 - k), 30), -30)
        color == 3000 * l - a * m
    IN  NumberToString(MathRound(255 * color, 300000), 16)

\* The inner function f(n) of hslToHex.  h in degrees, s and l in percent.
\*   lNorm = l/100                     a = (s/100) * min(lNorm, 1 - lNorm)
\*   k = (n + h/30) % 12               carried as 30*k
\*   color = lNorm - a * max(min(k - 3, 9 - k, 1), -1)
\*                                     carried as 300000*color
hslChannel(h, s, l, n) ==
    LET a     == s * Min(l, 100 - l)
        k     == (30 * n + h) % 360
        m     == Max(Min(Min(k - 90, 270 - k), 30), -30)
        color == 3000 * l - a * m
    IN  PadStart(NumberToString(MathRound(255 * color, 300000), 16), 2, "0")

\* The channels in blue-green-red order.
hslToHex_bgr(h, s, l) ==
    <<"#">> \o hslChannel(h, s, l, 4) \o hslChannel(h, s, l, 8)
            \o hslChannel(h, s, l, 0)

hslToHex(h, s, l) ==
    <<"#">> \o hslChannel(h, s, l, 0) \o hslChannel(h, s, l, 8)
            \o hslChannel(h, s, l, 4)

\* A threshold slip: every stop lighter than 80 or darker than 30 is reduced.
satAdjust_wideExtremes(config, stop) ==
    IF stop.lightness > 80 \/ stop.lightness < 30
        THEN 7 * config.saturation
        ELSE 10 * config.saturation

\* satAdjust of generateColorScale, in units of 1/(10*SatDen) percent:
\* config.saturation * 0.7 at the extremes, config.saturation elsewhere.
satAdjust(config, stop) ==
    IF stop.lightness > 90 \/ stop.lightness < 20
        THEN 7 * config.saturation
        ELSE 10 * config.saturation

\* The arguments generateColorScale hands to hslToHex for one stop.
hslArgs(config, stop) ==
    [h |-> config.hue,
     s |-> MathRound(satAdjust(config, stop), 10 * SatDen),
     l |-> stop.lightness]

\* The template literal `hsl(${hue}, ${Math.round(satAdjust)}%, ${lightness}%)`.
hslString(args) ==
    <<"h", "s", "l", "(">> \o NumberToString(args.h, 10) \o <<",", " ">>
        \o NumberToString(args.s, 10) \o <<"%", ",", " ">>
        \o NumberToString(args.l, 10) \o <<"%", ")">>

\* The body of generateColorScale, run on the table as the call finds it.
generateColorScaleFrom(shades, config) ==
    [i \in 1..Len(shades) |->
        LET stop == shades[i]
            args == hslArgs(config, stop)
        IN  [shade |-> stop.shade,
             hsl   |-> hslString(args),
             hex   |-> hslToHex(args.h, args.s, args.l)]]

\* generateColorScale in a freshly loaded module.
generateColorScale(config) ==
    generateColorScaleFrom(STANDARD_COLOR_SHADES, config)

\* STANDARD_COLOR_SHADES.reverse().map(...): reverse works in place.
shadesAfterMap_reversed(shades) ==
    [i \in 1..Len(shades) |-> shades[Len(shades) + 1 - i]]

\* STANDARD_COLOR_SHADES after STANDARD_COLOR_SHADES.map(...): map builds a
\* new array and the callback writes to none of the stops.
shadesAfterMap(shades) == shades

(***************************************************************************)
(* JavaScript number values: an exact fraction num/den (num >= 0, den > 0) *)
(* or NaN.                                                                 *)
(***************************************************************************)
Num(n, d) == [nan |-> FALSE, num |-> n, den |-> d]

NaN == [nan |-> TRUE, num |-> 0, den |-> 1]

RECURSIVE ReplaceTrailingZeros(_)
\* String.prototype.replace(/0+$/, '').
ReplaceTrailingZeros(str) ==
    IF str # <<>> /\ str[Len(str)] = "0"
        THEN ReplaceTrailingZeros(SubSeq(str, 1, Len(str) - 1))
        ELSE str

\* String.prototype.replace(/\.$/, '').
ReplaceTrailingDot(str) ==
    IF str # <<>> /\ str[Len(str)] = "."
        THEN SubSeq(str, 1, Len(str) - 1)
        ELSE str

RECURSIVE PowerOfTen(_)
PowerOfTen(n) == IF n = 0 THEN 1 ELSE 10 * PowerOfTen(n - 1)

\* Number.prototype.toFixed(fractionDigits), fractionDigits > 0: the integer
\* n nearest to x * 10^fractionDigits (the larger one of two), written with
\* its last fractionDigits digits after the point.
ToFixed(x, fractionDigits) ==
    IF x.nan
        THEN <<"N", "a", "N">>
        ELSE LET n      == MathRoundQuotient(
                               <<x.num, PowerOfTen(fractionDigits)>>, <<x.den>>)
                 digits == PadStart(NatToString(n, 10), fractionDigits + 1, "0")
             IN  SubSeq(digits, 1, Len(digits) - fractionDigits) \o <<".">>
                     \o SubSeq(digits, Len(digits) - fractionDigits + 1,
                               Len(digits))

\* The quotient printed with 6 decimals in place of 4.
remOf_sixDecimals(px) ==
    LET px16 == IF px.nan THEN NaN ELSE Num(px.num, px.den * 16)
    IN  ReplaceTrailingDot(ReplaceTrailingZeros(ToFixed(px16, 6)))
            \o <<"r", "e", "m">>

\* `${(px / 16).toFixed(4).replace(/0+$/, '').replace(/\.$/, '')}rem`
remOf(px) ==
    LET px16 == IF px.nan THEN NaN ELSE Num(px.num, px.den * 16)
    IN  ReplaceTrailingDot(ReplaceTrailingZeros(ToFixed(px16, 4)))
            \o <<"r", "e", "m">>

(***************************************************************************)
(* Type scale.                                                             *)
(***************************************************************************)
\* The ratio literals have three decimals: ratios and base sizes are held in
\* units of 1/BaseDen.
BaseDen == 1000
MaxBaseSize == 20       \* sampled base sizes are 0..MaxBaseSize px and a few
                        \* fractional ones

BaseSizes ==
    {b * BaseDen : b \in 0..MaxBaseSize}
        \cup {16 * BaseDen + 4, 16 * BaseDen + BaseDen \div 4,
              BaseDen \div 100, BaseDen \div 2}

\* The ratio values in thousandths.
TYPE_SCALE_RATIOS ==
    ("minor-second" :> 1067) @@ ("major-second" :> 1125)
        @@ ("minor-third" :> 1200) @@ ("major-third" :> 1250)
        @@ ("perfect-fourth" :> 1333) @@ ("augmented-fourth" :> 1414)
        @@ ("perfect-fifth" :> 1500) @@ ("golden-ratio" :> 1618)

\* What a caller can pass at run time: the eight names of TypeScaleRatio and,
\* the type being erased, any other string.
RatioArguments == DOMAIN TYPE_SCALE_RATIOS \cup {"octave"}

TypeScaleSteps ==
    << [name |-> "xs",      exponent |-> -2, weight |-> 400,
        lineHeight |-> <<"1", ".", "5">>],
       [name |-> "sm",      exponent |-> -1, weight |-> 400,
        lineHeight |-> <<"1", ".", "5">>],
       [name |-> "base",    exponent |-> 0,  weight |-> 400,
        lineHeight |-> <<"1", ".", "5">>],
       [name |-> "lg",      exponent |-> 1,  weight |-> 400,
        lineHeight |-> <<"1", ".", "4", "5">>],
       [name |-> "xl",      exponent |-> 2,  weight |-> 500,
        lineHeight |-> <<"1", ".", "4">>],
       [name |-> "2xl",     exponent |-> 3,  weight |-> 600,
        lineHeight |-> <<"1", ".", "3", "5">>],
       [name |-> "3xl",     exponent |-> 4,  weight |-> 600,
        lineHeight |-> <<"1", ".", "3">>],
       [name |-> "4xl",     exponent |-> 5,  weight |-> 700,
        lineHeight |-> <<"1", ".", "2">>],
       [name |-> "5xl",     exponent |-> 6,  weight |-> 700,
        lineHeight |-> <<"1", ".", "1", "5">>],
       [name |-> "display", exponent |-> 7,  weight |-> 800,
        lineHeight |-> <<"1", ".", "1">>] >>

Repeat(x, n) == [i \in 1..n |-> x]

\* const r = TYPE_SCALE_RATIOS[ratio]: <<value>>, or <<>> (undefined) when the
\* name is no key of the table.
ratioOf(ratios, ratio) ==
    IF ratio \in DOMAIN ratios THEN <<ratios[ratio]>> ELSE <<>>

\* Math.pow with the exponent negated.
MathPow_negated(r, exponent) ==
    IF exponent = 0
        THEN [nan |-> FALSE, numer |-> <<>>, denom |-> <<>>]
    ELSE IF r = <<>>
        THEN [nan |-> TRUE, numer |-> <<>>, denom |-> <<>>]
    ELSE IF exponent < 0
        THEN [nan |-> FALSE,
              numer |-> Repeat(r[1], -exponent),
              denom |-> Repeat(BaseDen, -exponent)]
        ELSE [nan |-> FALSE,
              numer |-> Repeat(BaseDen, exponent),
              denom |-> Repeat(r[1], exponent)]

\* Math.pow(r, exponent) as the factors of its numerator and of its
\* denominator.  Math.pow(undefined, e) is NaN unless e is 0, when it is 1.
MathPow(r, exponent) ==
    IF exponent = 0
        THEN [nan |-> FALSE, numer |-> <<>>, denom |-> <<>>]
    ELSE IF r = <<>>
        THEN [nan |-> TRUE, numer |-> <<>>, denom |-> <<>>]
    ELSE IF exponent > 0
        THEN [nan |-> FALSE,
              numer |-> Repeat(r[1], exponent),
              denom |-> Repeat(BaseDen, exponent)]
        ELSE [nan |-> FALSE,
              numer |-> Repeat(BaseDen, -exponent),
              denom |-> Repeat(r[1], -exponent)]

\* Math.floor in place of Math.round.
typeStepPx_floor(baseSizePx, r, exponent) ==
    LET pow == MathPow(r, exponent)
    IN  IF pow.nan
            THEN NaN
            ELSE Num(BigToNat(BigDivAll(
                         BigProduct(<<baseSizePx, 100>> \o pow.numer),
                         <<BaseDen>> \o pow.denom)),
                     100)

\* Rounding to one decimal in place of two.
typeStepPx_oneDecimal(baseSizePx, r, exponent) ==
    LET pow == MathPow(r, exponent)
    IN  IF pow.nan
            THEN NaN
            ELSE Num(10 * MathRoundQuotient(<<baseSizePx, 10>> \o pow.numer,
                                            <<BaseDen>> \o pow.denom),
                     100)

\* px = Math.round(baseSizePx * Math.pow(r, exponent) * 100) / 100
typeStepPx(baseSizePx, r, exponent) ==
    LET pow == MathPow(r, exponent)
    IN  IF pow.nan
            THEN NaN
            ELSE Num(MathRoundQuotient(<<baseSizePx, 100>> \o pow.numer,
                                       <<BaseDen>> \o pow.denom),
                     100)

\* factor: Math.pow(r, step.exponent), numerator and denominator in full.
typeStepFactor(r, exponent) ==
    LET pow == MathPow(r, exponent)
    IN  [nan |-> pow.nan,
         num |-> BigProduct(pow.numer),
         den |-> BigProduct(pow.denom)]

\* The body of generateTypeScale giving each step the weight and line-height
\* of the step at the mirrored place of the table.
generateTypeScaleFrom_mirrored(ratios, baseSizePx, ratio) ==
    [i \in 1..Len(TypeScaleSteps) |->
        LET step   == TypeScaleSteps[i]
            mirror == TypeScaleSteps[Len(TypeScaleSteps) + 1 - i]
            r      == ratioOf(ratios, ratio)
            px     == typeStepPx(baseSizePx, r, step.exponent)
        IN  [name                |-> step.name,
             factor              |-> typeStepFactor(r, step.exponent),
             rem                 |-> remOf(px),
             px                  |-> px,
             suggestedWeight     |-> mirror.weight,
             suggestedLineHeight |-> mirror.lineHeight]]

\* The body of generateTypeScale, run on the table as the call finds it.
generateTypeScaleFrom(ratios, baseSizePx, ratio) ==
    [i \in 1..Len(TypeScaleSteps) |->
        LET step == TypeScaleSteps[i]
            r    == ratioOf(ratios, ratio)
            px   == typeStepPx(baseSizePx, r, step.exponent)
        IN  [name                |-> step.name,
             factor              |-> typeStepFactor(r, step.exponent),
             rem                 |-> remOf(px),
             px                  |-> px,
             suggestedWeight     |-> step.weight,
             suggestedLineHeight |-> step.lineHeight]]

\* generateTypeScale in a freshly loaded module.
generateTypeScale(baseSizePx, ratio) ==
    generateTypeScaleFrom(TYPE_SCALE_RATIOS, baseSizePx, ratio)

(***************************************************************************)
(* Spacing scale.                                                          *)
(***************************************************************************)
MaxBaseUnit == 8        \* sampled base units are 0..MaxBaseUnit px and 0.5 px

\* Base units in units of 1/BaseDen px.
BaseUnits == {u * BaseDen : u \in 0..MaxBaseUnit} \cup {BaseDen \div 2}

\* The multipliers of the doc comment's 4px grid: no half steps and no 7.
multipliers_fourGrid ==
    <<0, 2, 4, 6, 8, 10, 12, 16, 20, 24, 28, 32, 40, 48, 56, 64>>

\* const multipliers, in halves: 0, 0.5, 1, 1.5, 2, 2.5, 3, 4, ... 32.
multipliers ==
    <<0, 1, 2, 3, 4, 5, 6, 8, 10, 12, 14, 16, 20, 24, 28, 32, 40, 48, 56, 64>>

\* Number::toString of a multiple of one half, given in halves.
HalvesToString(mult) ==
    IF mult % 2 = 0
        THEN NatToString(mult \div 2, 10)
        ELSE NatToString(mult \div 2, 10) \o <<".", "5">>

\* name = mult === 0 ? '0' : mult < 1 ? `${mult}`.replace('0.', '0.')
\*                                    : String(mult)
\* (the replace puts back what it takes out).
spacingName(mult) ==
    IF mult = 0 THEN <<"0">>
    ELSE IF mult < 2 THEN HalvesToString(mult)
    ELSE HalvesToString(mult)

\* px = baseUnit + mult.
spacingPx_sum(baseUnit, mult) == Num(2 * baseUnit + mult * BaseDen, 2 * BaseDen)

\* px = baseUnit * mult
spacingPx(baseUnit, mult) == Num(baseUnit * mult, 2 * BaseDen)

\* The default parameter value: baseUnit = 4 when no argument is passed.
baseUnitOf(args) == IF args = <<>> THEN 4 * BaseDen ELSE args[1]

generateSpacingScale(baseUnit) ==
    [i \in 1..Len(multipliers) |->
        LET mult == multipliers[i]
            px   == spacingPx(baseUnit, mult)
        IN  [name |-> spacingName(mult), px |-> px, rem |-> remOf(px)]]

(***************************************************************************)
(* The design-system capability: the contrast report is taken from the     *)
(* language model's reply.  The reply is any text; the model draws it from *)
(* a sample that holds API failures, text that is no JSON, JSON objects    *)
(* that lack a field, and complete objects with a contrast report of up to *)
(* MaxContrastEntries entries.                                             *)
(***************************************************************************)
MaxContrastEntries == 2

WhitespaceChars == {" ", "\t", "\n"}

RECURSIVE TrimStart(_)
TrimStart(str) ==
    IF str # <<>> /\ Head(str) \in WhitespaceChars
        THEN TrimStart(Tail(str))
        ELSE str

RECURSIVE TrimEnd(_)
TrimEnd(str) ==
    IF str # <<>> /\ str[Len(str)] \in WhitespaceChars
        THEN TrimEnd(SubSeq(str, 1, Len(str) - 1))
        ELSE str

\* String.prototype.trim.
Trim(str) == TrimEnd(TrimStart(str))

UXPilotError(code) == [name |-> "UXPilotError", code |-> code]

TypeError == [name |-> "TypeError", code |-> ""]

\* DesignSystemInput: brandName (hasBrandName is FALSE when it is undefined),
\* colors (the brand colours, <<>> when undefined) and targetPlatform (""
\* when it is undefined).
DesignSystemInputs ==
    { [hasBrandName |-> FALSE, brandName |-> <<>>, colors |-> <<>>,
       targetPlatform |-> ""],
      [hasBrandName |-> TRUE, brandName |-> <<>>, colors |-> <<>>,
       targetPlatform |-> ""],
      [hasBrandName |-> TRUE, brandName |-> <<" ", "\t">>, colors |-> <<>>,
       targetPlatform |-> "web"],
      [hasBrandName |-> TRUE, brandName |-> <<"A", "c", "m", "e">>,
       colors |-> <<>>, targetPlatform |-> ""],
      [hasBrandName |-> TRUE, brandName |-> <<"A", "c", "m", "e">>,
       colors |-> << <<"#", "f", "f", "0", "0", "0", "0">> >>,
       targetPlatform |-> "web"],
      [hasBrandName |-> TRUE, brandName |-> <<"A", "c", "m", "e">>,
       colors |-> << <<"#", "f", "f", "0", "0", "0", "0">>,
                     <<"#", "1", "2", "g">> >>,
       targetPlatform |-> "web"],
      [hasBrandName |-> TRUE, brandName |-> <<" ", "A", "B">>,
       colors |-> <<>>, targetPlatform |-> "mobile"] }

\* The colours and ratios (in hundredths) the sampled contrast entries use.
ContrastColors == {"#000000", "#ffffff"}

ContrastRatios == {5, 450, 2100}

\* The flags a reply may give an entry of ratio r (in hundredths): the
\* ones WCAG derives from the ratio, or all true.
ContrastFlags(r) ==
    { <<r >= 450, r >= 700, r >= 300>>, <<TRUE, TRUE, TRUE>> }

ContrastEntries ==
    UNION { { [foreground |-> pair[1], background |-> pair[2],
               ratio |-> Num(r, 100),
               passesAA |-> flags[1], passesAAA |-> flags[2],
               passesAALargeText |-> flags[3]] : flags \in ContrastFlags(r) } :
            pair \in {p \in ContrastColors \X ContrastColors : p[1] # p[2]},
            r \in ContrastRatios }

RECURSIVE SeqsUpTo(_, _)
\* The sequences over S of length at most n.
SeqsUpTo(S, n) ==
    IF n = 0
        THEN {<<>>}
        ELSE LET shorter == SeqsUpTo(S, n - 1)
             IN  shorter \cup {Append(q, x) : q \in shorter, x \in S}

ContrastReports == SeqsUpTo(ContrastEntries, MaxContrastEntries)

ComponentInventories ==
    { <<>>,
      << [name |-> "Tooltip", category |-> "overlay",
          priority |-> "optional", description |-> "Hover hint"],
         [name |-> "Button", category |-> "action",
          priority |-> "essential", description |-> "Primary action"] >> }

\* What JSON.parse yields for the cleaned reply: json is FALSE when the text
\* is no JSON (JSON.parse throws); has<Field> is FALSE when the parsed value
\* has no such property.  tokens stands for a complete DesignTokens object.
NotJSON ==
    [json |-> FALSE, hasTokens |-> FALSE, tokens |-> "",
     hasContrastReport |-> FALSE, contrastReport |-> <<>>,
     hasComponentInventory |-> FALSE, componentInventory |-> <<>>]

JSONObject(hasTokens, hasReport, report, hasInventory, inventory) ==
    [json |-> TRUE,
     hasTokens |-> hasTokens,
     tokens |-> IF hasTokens THEN "DesignTokens" ELSE "",
     hasContrastReport |-> hasReport,
     contrastReport |-> report,
     hasComponentInventory |-> hasInventory,
     componentInventory |-> inventory]

ReplyBodies ==
    {NotJSON}
        \cup {JSONObject(FALSE, FALSE, <<>>, FALSE, <<>>),
              JSONObject(FALSE, TRUE, <<>>, TRUE, <<>>),
              JSONObject(TRUE, FALSE, <<>>, TRUE, <<>>),
              JSONObject(TRUE, TRUE, <<>>, FALSE, <<>>)}
        \cup {JSONObject(TRUE, TRUE, report, TRUE, <<>>) :
                 report \in ContrastReports}
        \cup {JSONObject(TRUE, TRUE, <<>>, TRUE, inventory) :
                 inventory \in ComponentInventories}

\* What the Anthropic client does with a request: it throws an APIError,
\* throws something else, answers without a text block, or answers with a
\* text (fenced says whether the text is wrapped in a markdown code fence).
LLMReplies ==
    { [kind |-> k, fenced |-> FALSE, body |-> NotJSON] :
          k \in {"APIError", "Error", "no-text"} }
        \cup { [kind |-> "text", fenced |-> FALSE, body |-> b] :
                  b \in ReplyBodies }
        \cup { [kind |-> "text", fenced |-> TRUE, body |-> b] :
                  b \in {NotJSON, JSONObject(TRUE, TRUE, <<>>, TRUE, <<>>)} }

\* LLMClient.chat: the text of the reply or a UXPilotError of code LLM_ERROR.
chat(reply) ==
    IF reply.kind = "text"
        THEN [err |-> NoError, text |-> [fenced |-> reply.fenced,
                                         body |-> reply.body]]
        ELSE [err |-> UXPilotError("LLM_ERROR"),
              text |-> [fenced |-> FALSE, body |-> NotJSON]]

\* raw.replace(/^```(?:json)?\n?/gm, '').replace(/```$/gm, '').trim()
cleaned(text) == [fenced |-> FALSE, body |-> text.body]

\* chatJSON without its try/catch: the SyntaxError of JSON.parse escapes.
chatJSON_noCatch(reply) ==
    LET raw == chat(reply)
    IN  IF raw.err # NoError
            THEN [err |-> raw.err, value |-> NotJSON]
        ELSE IF ~cleaned(raw.text).body.json
            THEN [err |-> [name |-> "SyntaxError", code |-> ""],
                  value |-> NotJSON]
        ELSE [err |-> NoError, value |-> cleaned(raw.text).body]

\* LLMClient.chatJSON: the parsed reply, or the error of chat, or a
\* UXPilotError of code PARSE_ERROR when JSON.parse throws.
chatJSON(reply) ==
    LET raw == chat(reply)
    IN  IF raw.err # NoError
            THEN [err |-> raw.err, value |-> NotJSON]
        ELSE IF ~cleaned(raw.text).body.json
            THEN [err |-> UXPilotError("PARSE_ERROR"), value |-> NotJSON]
        ELSE [err |-> NoError, value |-> cleaned(raw.text).body]

\* validateInput: !input.brandName?.trim()
validateInput(input) ==
    IF ~input.hasBrandName \/ Trim(input.brandName) = <<>>
        THEN UXPilotError("INVALID_INPUT")
        ELSE NoError

\* One row of the report's contrast table:
\* | foreground | background | ratio.toFixed(2):1 | AA | AAA | AA Large |
contrastRow(cr) ==
    [foreground |-> cr.foreground,
     background |-> cr.background,
     ratio      |-> ToFixed(cr.ratio, 2) \o <<":", "1">>,
     aa         |-> IF cr.passesAA THEN "check" ELSE "cross",
     aaa        |-> IF cr.passesAAA THEN "check" ELSE "cross",
     aaLarge    |-> IF cr.passesAALargeText THEN "check" ELSE "cross"]

\* The component inventory of the report: the items grouped by priority, in
\* the order essential, recommended, optional.
inventorySection(inventory) ==
    SelectSeq(inventory, LAMBDA c : c.priority = "essential")
        \o SelectSeq(inventory, LAMBDA c : c.priority = "recommended")
        \o SelectSeq(inventory, LAMBDA c : c.priority = "optional")

\* generateReport: the sections of the markdown report, or the TypeError
\* thrown on reading a field of the reply that is not there (data.tokens
\* first, then data.contrastReport, then data.componentInventory).
generateReport(input, data) ==
    IF ~data.hasTokens \/ ~data.hasContrastReport
           \/ ~data.hasComponentInventory
        THEN [err |-> TypeError, report |-> <<>>]
        ELSE [err |-> NoError,
              report |->
                  << [title |-> input.brandName,
                      platform |-> IF input.targetPlatform = ""
                                       THEN "web" ELSE input.targetPlatform,
                      tokens |-> data.tokens,
                      contrast |-> [i \in 1..Len(data.contrastReport) |->
                                       contrastRow(data.contrastReport[i])],
                      inventory |->
                          inventorySection(data.componentInventory)] >>]

\* DesignSystemCapability.execute: what it returns (or throws) and the
\* requests it sends to the model on the way.
DesignSystemExecute(input, reply) ==
    LET invalid    == validateInput(input)
        structured == chatJSON(reply)
        report     == generateReport(input, structured.value)
        request    == [capability |-> "design-system", maxTokens |-> 8192,
                       brand |-> input.brandName, colors |-> input.colors,
                       reply |-> reply]
    IN  IF invalid # NoError
            THEN [err |-> invalid, ret |-> <<>>, requests |-> <<>>]
        ELSE IF structured.err # NoError
            THEN [err |-> structured.err, ret |-> <<>>,
                  requests |-> <<request>>]
        ELSE IF report.err # NoError
            THEN [err |-> report.err, ret |-> <<>>, requests |-> <<request>>]
        ELSE [err |-> NoError,
              ret |-> << [tokens |-> structured.value.tokens,
                          contrastReport |-> structured.value.contrastReport,
                          componentInventory |->
                              structured.value.componentInventory,
                          markdownReport |-> report.report] >>,
              requests |-> <<request>>]

(***************************************************************************)
(* The six capabilities.  Each execute validates its input, builds the     *)
(* prompt, awaits chatJSON and post-processes the parsed reply.  For the   *)
(* five capabilities other than design-system the parsed reply is carried  *)
(* as the set of top-level fields it has; a field that is there is taken   *)
(* to be well-shaped.                                                      *)
(***************************************************************************)
CapabilityIds ==
    {"design-system", "component-architecture", "accessibility-audit",
     "user-flow", "wireframe", "design-critique"}

\* An optional string property: absent (undefined) or a text.
Absent == [has |-> FALSE, text |-> <<>>]

Text(str) == [has |-> TRUE, text |-> str]

\* !value?.trim()
IsBlank(value) == ~value.has \/ Trim(value.text) = <<>>

TextValues ==
    {Absent, Text(<<>>), Text(<<" ", "\n">>), Text(<<"u", "i">>)}

\* const validTypes of AccessibilityAuditCapability.validateInput
AuditValidTypes == {"component-code", "html", "description"}

\* const validTypes of DesignCritiqueCapability.validateInput
CritiqueValidTypes == {"ui-description", "component-code", "design-spec"}

\* targetType as it arrives at run time: a valid name, a name of the other
\* capability, or nothing.
TargetTypeValues == AuditValidTypes \cup CritiqueValidTypes \cup {"undefined"}

CapabilityInputs(id) ==
    CASE id = "design-system" -> DesignSystemInputs
      [] id = "component-architecture" ->
            { [description |-> d, existingCode |-> c] :
                  d \in TextValues,
                  c \in {Absent, Text(<<" ">>), Text(<<"<", "a", ">">>)} }
      [] id = "accessibility-audit" ->
            { [target |-> t, targetType |-> ty] :
                  t \in TextValues, ty \in TargetTypeValues }
      [] id = "user-flow" ->
            { [featureDescription |-> f] : f \in TextValues }
      [] id = "wireframe" ->
            { [requirements |-> r] : r \in TextValues }
      [] id = "design-critique" ->
            { [target |-> t, targetType |-> ty] :
                  t \in TextValues, ty \in TargetTypeValues }

\* A validateInput that passes when valid holds.
InvalidUnless(valid) ==
    IF valid THEN NoError ELSE UXPilotError("INVALID_INPUT")

\* The targetType check left out of the critique's validateInput.
CapabilityValidateInput_noTypeCheck(id, input) ==
    CASE id = "design-system" -> validateInput(input)
      [] id = "component-architecture" ->
            InvalidUnless(~(IsBlank(input.description)
                                /\ IsBlank(input.existingCode)))
      [] id = "accessibility-audit" ->
            InvalidUnless(~IsBlank(input.target)
                              /\ input.targetType \in AuditValidTypes)
      [] id = "user-flow" ->
            InvalidUnless(~IsBlank(input.featureDescription))
      [] id = "wireframe" ->
            InvalidUnless(~IsBlank(input.requirements))
      [] id = "design-critique" ->
            InvalidUnless(~IsBlank(input.target))

\* The validateInput of each capability.
CapabilityValidateInput(id, input) ==
    CASE id = "design-system" -> validateInput(input)
      [] id = "component-architecture" ->
            InvalidUnless(~(IsBlank(input.description)
                                /\ IsBlank(input.existingCode)))
      [] id = "accessibility-audit" ->
            InvalidUnless(~IsBlank(input.target)
                              /\ input.targetType \in AuditValidTypes)
      [] id = "user-flow" ->
            InvalidUnless(~IsBlank(input.featureDescription))
      [] id = "wireframe" ->
            InvalidUnless(~IsBlank(input.requirements))
      [] id = "design-critique" ->
            InvalidUnless(~IsBlank(input.target)
                              /\ input.targetType \in CritiqueValidTypes)

\* One read of a field of the parsed reply by the post-processing; deref
\* says whether the value is used as an object or array there, which throws
\* a TypeError when the field is undefined.
Read(field, deref) == [field |-> field, deref |-> deref]

\* The fields of the parsed reply in the order execute and generateReport
\* first read them.
ResponseReads(id) ==
    CASE id = "design-system" ->
            << Read("tokens", TRUE), Read("contrastReport", TRUE),
               Read("componentInventory", TRUE) >>
      [] id = "component-architecture" ->
            << Read("rootComponent", TRUE),
               Read("stateManagementApproach", FALSE),
               Read("compositionPatterns", TRUE),
               Read("dataFlowDiagram", FALSE) >>
      [] id = "accessibility-audit" ->
            << Read("findings", TRUE), Read("passedCriteria", TRUE) >>
      [] id = "user-flow" ->
            << Read("mermaidDiagram", FALSE), Read("entryPoints", TRUE),
               Read("happyPath", TRUE), Read("decisionPoints", TRUE),
               Read("errorStates", TRUE), Read("edgeCases", TRUE) >>
      [] id = "wireframe" ->
            << Read("informationHierarchy", TRUE), Read("contentZones", TRUE),
               Read("navigationPattern", TRUE),
               Read("responsiveStrategy", TRUE),
               Read("asciiWireframes", TRUE) >>
      [] id = "design-critique" ->
            << Read("heuristicScores", TRUE), Read("strengths", TRUE),
               Read("issues", TRUE), Read("priorityActions", TRUE) >>

\* The fields of the LLM...Response interface of a capability.
ExpectedFields(id) ==
    {ResponseReads(id)[i].field : i \in 1..Len(ResponseReads(id))}

\* The fields the parsed reply of the design-system capability has.
FieldsOf(body) ==
    {f \in {"tokens"} : body.hasTokens}
        \cup {f \in {"contrastReport"} : body.hasContrastReport}
        \cup {f \in {"componentInventory"} : body.hasComponentInventory}

\* The parsed replies sampled for a capability other than design-system:
\* every field, no field, and every field but one.
FieldBodies(id) ==
    { [json |-> TRUE, fields |-> ExpectedFields(id)],
      [json |-> TRUE, fields |-> {}] }
        \cup { [json |-> TRUE, fields |-> ExpectedFields(id) \ {f}] :
                  f \in ExpectedFields(id) }

CapabilityReplies(id) ==
    IF id = "design-system"
        THEN LLMReplies
        ELSE { [kind |-> k, fenced |-> FALSE, body |-> NotJSON] :
                   k \in {"APIError", "Error", "no-text"} }
                 \cup { [kind |-> "text", fenced |-> f, body |-> NotJSON] :
                           f \in BOOLEAN }
                 \cup { [kind |-> "text", fenced |-> FALSE, body |-> b] :
                           b \in FieldBodies(id) }

\* The position in reads of the first dereference of a field that is not
\* there, 0 when there is none.
FirstMissing(reads, fields) ==
    LET missing == {i \in 1..Len(reads) :
                        reads[i].deref /\ reads[i].field \notin fields}
    IN  IF missing = {}
            THEN 0
            ELSE CHOOSE i \in missing : \A j \in missing : i <= j

\* The events of the post-processing: the fields read, up to the read that
\* throws.
ReadEvents(id, fields) ==
    LET reads == ResponseReads(id)
        k     == FirstMissing(reads, fields)
        last  == IF k = 0 THEN Len(reads) ELSE k
    IN  [i \in 1..last |-> [kind |-> "read", what |-> reads[i].field]]

\* The post-processing of the capabilities other than design-system: the
\* output, or the TypeError of the first dereference of a missing field.
PostProcess(id, fields) ==
    IF FirstMissing(ResponseReads(id), fields) # 0
        THEN [err |-> TypeError, ret |-> <<>>]
        ELSE [err |-> NoError,
              ret |-> << [fields |-> fields,
                          markdownReport |-> "report"] >>]

\* execute of capability id: what it returns or throws, the requests it
\* sends to the model, and the order of its steps.
CapabilityExecute(id, input, reply) ==
    LET invalid  == CapabilityValidateInput(id, input)
        parsed   == chatJSON(reply)
        request  == [capability |-> id, maxTokens |-> 8192, reply |-> reply]
        validate == [kind |-> "validateInput", what |-> id]
        ask      == [kind |-> "chatJSON", what |-> id]
    IN  IF invalid # NoError
            THEN [err |-> invalid, ret |-> <<>>, requests |-> <<>>,
                  events |-> <<validate>>]
        ELSE IF id = "design-system"
            THEN LET outcome == DesignSystemExecute(input, reply)
                 IN  [err |-> outcome.err, ret |-> outcome.ret,
                      requests |-> outcome.requests,
                      events |->
                          <<validate, ask>>
                              \o (IF parsed.err # NoError
                                      THEN <<>>
                                      ELSE ReadEvents(id,
                                               FieldsOf(parsed.value)))]
        ELSE IF parsed.err # NoError
            THEN [err |-> parsed.err, ret |-> <<>>,
                  requests |-> <<request>>, events |-> <<validate, ask>>]
        ELSE LET done == PostProcess(id, parsed.value.fields)
             IN  [err |-> done.err, ret |-> done.ret,
                  requests |-> <<request>>,
                  events |-> <<validate, ask>>
                                 \o ReadEvents(id, parsed.value.fields)]

(***************************************************************************)
(* The orchestrator.  UXPilot.execute loads the capability (from the       *)
(* instance's cache, or by importing its module and constructing it) and   *)
(* awaits its execute.                                                     *)
(***************************************************************************)
CAPABILITY_MODULES ==
    [id \in CapabilityIds |->
        CASE id = "design-system" -> "../capabilities/design-system.js"
          [] id = "component-architecture" ->
                "../capabilities/component-architecture.js"
          [] id = "accessibility-audit" ->
                "../capabilities/accessibility-audit.js"
          [] id = "user-flow" -> "../capabilities/user-flow-mapper.js"
          [] id = "wireframe" -> "../capabilities/wireframe-advisor.js"
          [] id = "design-critique" -> "../capabilities/design-critique.js"]

CAPABILITY_EXPORTS ==
    [id \in CapabilityIds |->
        CASE id = "design-system" -> "DesignSystemCapability"
          [] id = "component-architecture" -> "ComponentArchCapability"
          [] id = "accessibility-audit" -> "AccessibilityAuditCapability"
          [] id = "user-flow" -> "UserFlowMapperCapability"
          [] id = "wireframe" -> "WireframeAdvisorCapability"
          [] id = "design-critique" -> "DesignCritiqueCapability"]

\* A capability id as it arrives at run time: one of the six or any other
\* string.
CapabilityIdArguments == CapabilityIds \cup {"design-tokens"}

\* What import(modulePath) does: it yields the module with the class, a
\* module without the export, or it rejects.
ImportResults == {"module", "no-export", "rejects"}

\* error instanceof Error ? error.message : String(error)
MessageOf(error) ==
    IF error.name = "TypeError"
        THEN "Cannot read properties of undefined"
        ELSE error.code

\* loadCapability: the cached instance, or a new one, or a UXPilotError of
\* code CAPABILITY_NOT_FOUND.
loadCapability(id, cached, imported) ==
    LET import    == [kind |-> "import", what |-> id]
        construct == [kind |-> "new Capability", what |-> id]
        notFound  == UXPilotError("CAPABILITY_NOT_FOUND")
    IN  IF cached
            THEN [err |-> NoError, events |-> <<>>]
        ELSE IF id \notin DOMAIN CAPABILITY_MODULES
                    \/ id \notin DOMAIN CAPABILITY_EXPORTS
            THEN [err |-> notFound, events |-> <<>>]
        ELSE IF imported # "module"
            THEN [err |-> notFound, events |-> <<import>>]
        ELSE [err |-> NoError, events |-> <<import, construct>>]

\* The catch of UXPilot.execute with every error wrapped, a UXPilotError too.
rethrow_wrapAll(capabilityId, error) ==
    IF error = NoError
        THEN NoError
        ELSE [name |-> "UXPilotError", code |-> "UNKNOWN",
              details |-> [capabilityId |-> capabilityId,
                           originalError |-> MessageOf(error)]]

\* The catch of UXPilot.execute: a UXPilotError is thrown on as it is, any
\* other value is replaced by a UXPilotError of code UNKNOWN.
rethrow(capabilityId, error) ==
    IF error = NoError
        THEN NoError
    ELSE IF error.name = "UXPilotError"
        THEN error
        ELSE [name |-> "UXPilotError", code |-> "UNKNOWN",
              details |-> [capabilityId |-> capabilityId,
                           originalError |-> MessageOf(error)]]

\* UXPilot.execute once the capability is loaded: what its execute gave,
\* with the error passed through the catch.
ExecuteLoaded(capabilityId, loaded, outcome) ==
    [err |-> rethrow(capabilityId, outcome.err),
     ret |-> outcome.ret,
     requests |-> outcome.requests,
     events |-> loaded.events \o outcome.events]

\* UXPilot.execute when loadCapability threw.
ExecuteNotLoaded(loaded) ==
    [err |-> loaded.err, ret |-> <<>>, requests |-> <<>>,
     events |-> loaded.events]

\* The two ways on from loadCapability.
ExecuteAfterLoad(capabilityId, input, reply, loaded) ==
    IF loaded.err # NoError
        THEN ExecuteNotLoaded(loaded)
        ELSE ExecuteLoaded(capabilityId, loaded,
                           CapabilityExecute(capabilityId, input, reply))

\* UXPilot.execute.
UXPilotExecute(capabilityId, input, reply, cached, imported) ==
    ExecuteAfterLoad(capabilityId, input, reply,
                     loadCapability(capabilityId, cached, imported))

\* The inputs and replies of a call with a capability id, known or not.
InputsFor(id) ==
    IF id \in CapabilityIds THEN CapabilityInputs(id) ELSE {[page |-> "home"]}

RepliesFor(id) ==
    IF id \in CapabilityIds
        THEN CapabilityReplies(id)
        ELSE {[kind |-> "no-text", fenced |-> FALSE, body |-> NotJSON]}

(***************************************************************************)
(* The MCP server: the handler of a tool call.                             *)
(***************************************************************************)
\* TOOL_CAPABILITY_MAP: the capability of each of the six tools.
TOOL_CAPABILITY_MAP ==
    ("ux_design_system" :> "design-system")
        @@ ("ux_component_architecture" :> "component-architecture")
        @@ ("ux_accessibility_audit" :> "accessibility-audit")
        @@ ("ux_user_flow" :> "user-flow")
        @@ ("ux_wireframe" :> "wireframe")
        @@ ("ux_design_critique" :> "design-critique")

\* request.params.name: one of the six tools or any other name.
ToolNames == DOMAIN TOOL_CAPABILITY_MAP \cup {"ux_color_scale"}

\* process.env.ANTHROPIC_API_KEY: unset, empty or set.
ApiKeys == {Absent, Text(<<>>), Text(<<"s", "k">>)}

\* JavaScript truthiness of an optional string.
Truthy(value) == value.has /\ value.text # <<>>

\* request.params.arguments of a call of the tool of capability id.
ToolArguments(id) ==
    CASE id = "design-system" ->
            { [brandColors |-> c, targetPlatform |-> p] :
                  c \in {<<>>, << <<"#", "1", "2", "g">> >>},
                  p \in {"", "ios"} }
      [] id = "component-architecture" ->
            { [description |-> d, code |-> c] :
                  d \in TextValues, c \in {Absent, Text(<<"<", "a", ">">>)} }
      [] id = "accessibility-audit" ->
            { [code |-> c, html |-> h, description |-> d] :
                  c \in TextValues, h \in {Absent, Text(<<"<", "p", ">">>)},
                  d \in {Absent, Text(<<" ">>), Text(<<"u", "i">>)} }
      [] id = "user-flow" -> { [feature |-> f] : f \in TextValues }
      [] id = "wireframe" -> { [feature |-> f] : f \in TextValues }
      [] id = "design-critique" ->
            { [code |-> c, description |-> d, screenshot |-> s] :
                  c \in TextValues, d \in {Absent, Text(<<"u", "i">>)},
                  s \in {Absent, Text(<<" ">>), Text(<<"u", "r", "l">>)} }

ArgumentsFor(name) ==
    IF name \in DOMAIN TOOL_CAPABILITY_MAP
        THEN ToolArguments(TOOL_CAPABILITY_MAP[name])
        ELSE {[page |-> "home"]}

\* if (args.x) input.y = args.x
IfGiven(value) == IF Truthy(value) THEN value ELSE Absent

\* transformInput: the capability input made of the tool arguments.
transformInput(capabilityId, args) ==
    CASE capabilityId = "design-system" ->
            [hasBrandName |-> TRUE,
             brandName |-> <<"D", "e", "s", "i", "g", "n", " ",
                             "S", "y", "s", "t", "e", "m">>,
             colors |-> args.brandColors,
             targetPlatform |-> args.targetPlatform]
      [] capabilityId = "component-architecture" ->
            [description |-> IfGiven(args.description),
             existingCode |-> IfGiven(args.code)]
      [] capabilityId = "accessibility-audit" ->
            IF Truthy(args.code)
                THEN [target |-> args.code, targetType |-> "component-code"]
            ELSE IF Truthy(args.html)
                THEN [target |-> args.html, targetType |-> "html"]
            ELSE IF Truthy(args.description)
                THEN [target |-> args.description,
                      targetType |-> "description"]
            ELSE [target |-> Absent, targetType |-> "undefined"]
      [] capabilityId = "user-flow" ->
            [featureDescription |-> IfGiven(args.feature)]
      [] capabilityId = "wireframe" ->
            [requirements |-> IfGiven(args.feature)]
      [] capabilityId = "design-critique" ->
            IF Truthy(args.code)
                THEN [target |-> args.code, targetType |-> "component-code"]
            ELSE IF Truthy(args.description)
                THEN [target |-> args.description,
                      targetType |-> "ui-description"]
            ELSE IF Truthy(args.screenshot)
                THEN [target |-> args.screenshot,
                      targetType |-> "design-spec"]
            ELSE [target |-> Absent, targetType |-> "undefined"]

\* A tool response with one text item, without isError.
TextResponse(text) == [content |-> << [type |-> "text", text |-> text] >>]

\* A tool response with one text item and isError: true.
ErrorResponse(text) ==
    [content |-> << [type |-> "text", text |-> text] >>, isError |-> TRUE]

\* new UXPilot(options): the LLMClient constructor throws on a falsy key.
NewUXPilot(apiKey) ==
    IF Truthy(apiKey) THEN NoError ELSE UXPilotError("INVALID_INPUT")

\* The response to an unknown tool name.
UnknownTool(name) ==
    [err |-> NoError, requests |-> <<>>, events |-> <<>>,
     ret |-> << ErrorResponse([says |-> "Unknown tool", about |-> name]) >>]

\* The response when ANTHROPIC_API_KEY is not set.
KeyNotSet ==
    [err |-> NoError, requests |-> <<>>, events |-> <<>>,
     ret |-> << ErrorResponse([says |-> "ANTHROPIC_API_KEY is not set",
                               about |-> ""]) >>]

\* The response of the try block, given what new UXPilot and pilot.execute
\* did: the serialized result, or the catch's response to the error.  The
\* text of a response is carried by what it says: the tool name, the
\* message of the error caught (by its code), or the result that
\* JSON.stringify serializes (no capability returns a string).
Respond(name, created, outcome) ==
    LET pilot == [kind |-> "new UXPilot", what |-> name]
    IN  IF created # NoError
            THEN [err |-> NoError, requests |-> <<>>, events |-> <<pilot>>,
                  ret |-> << ErrorResponse([says |-> "Error executing",
                                            about |-> name,
                                            message |-> created.code]) >>]
        ELSE IF outcome.err # NoError
            THEN [err |-> NoError, requests |-> outcome.requests,
                  events |-> <<pilot>> \o outcome.events,
                  ret |-> << ErrorResponse([says |-> "Error executing",
                                            about |-> name,
                                            message |-> outcome.err.code]) >>]
            ELSE [err |-> NoError, requests |-> outcome.requests,
                  events |-> <<pilot>> \o outcome.events,
                  ret |-> << TextResponse(
                                 [stringified |-> outcome.ret[1]]) >>]

\* The try block without its catch: the error of execute escapes.
Escape(name, outcome) ==
    LET pilot == [kind |-> "new UXPilot", what |-> name]
    IN  IF outcome.err # NoError
            THEN [err |-> outcome.err, requests |-> outcome.requests,
                  events |-> <<pilot>> \o outcome.events, ret |-> <<>>]
            ELSE [err |-> NoError, requests |-> outcome.requests,
                  events |-> <<pilot>> \o outcome.events,
                  ret |-> << TextResponse(
                                 [stringified |-> outcome.ret[1]]) >>]

\* execute on the new UXPilot, whose cache is empty.
ExecuteTool(name, args, reply, imported) ==
    UXPilotExecute(TOOL_CAPABILITY_MAP[name],
                   transformInput(TOOL_CAPABILITY_MAP[name], args),
                   reply, FALSE, imported)

\* The handler with the key looked at before the tool name.
CallToolHandler_keyFirst(name, apiKey, args, reply, imported) ==
    IF ~Truthy(apiKey)
        THEN KeyNotSet
    ELSE IF name \notin DOMAIN TOOL_CAPABILITY_MAP
        THEN UnknownTool(name)
        ELSE Respond(name, NewUXPilot(apiKey),
                     ExecuteTool(name, args, reply, imported))

\* The handler without its try/catch.
CallToolHandler_noCatch(name, apiKey, args, reply, imported) ==
    IF name \notin DOMAIN TOOL_CAPABILITY_MAP
        THEN UnknownTool(name)
    ELSE IF ~Truthy(apiKey)
        THEN KeyNotSet
        ELSE Escape(name, ExecuteTool(name, args, reply, imported))

\* The CallToolRequestSchema handler: the response it returns, the requests
\* it sends to the model and the order of its steps.
CallToolHandler(name, apiKey, args, reply, imported) ==
    IF name \notin DOMAIN TOOL_CAPABILITY_MAP
        THEN UnknownTool(name)
    ELSE IF ~Truthy(apiKey)
        THEN KeyNotSet
        ELSE Respond(name, NewUXPilot(apiKey),
                     ExecuteTool(name, args, reply, imported))

RepliesForTool(name) ==
    IF name \in DOMAIN TOOL_CAPABILITY_MAP
        THEN RepliesFor(TOOL_CAPABILITY_MAP[name])
        ELSE RepliesFor(name)

(***************************************************************************)
(* The command line (src/src/cli/ux-pilot.ts): how a result is printed.    *)
(* A JavaScript value is a record with its type; an object is the sequence *)
(* of its own properties, each a key and a value.                          *)
(***************************************************************************)
Undefined == [type |-> "undefined"]

Null == [type |-> "null"]

Str(text) == [type |-> "string", text |-> text]

Number(n) == [type |-> "number", value |-> n]

Object(properties) == [type |-> "object", properties |-> properties]

Array(items) == [type |-> "array", items |-> items]

Property(key, value) == [key |-> key, value |-> value]

\* The report texts of the sample: empty, a heading, and one with a quote.
ReportTexts == { <<>>, <<"#", " ", "R">>, <<"a", "\"", "b">> }

\* The values a property of a sampled result holds.
PropertyValues ==
    {Str(s) : s \in ReportTexts} \cup {Number(5), Null, Undefined}

\* The results printResult is given (its parameter is of type unknown):
\* primitives, arrays, and objects without a markdownReport, with one of
\* each type, and with one after another property.
Results ==
    {Undefined, Null, Number(0), Number(42), Array(<<>>), Object(<<>>)}
        \cup {Str(s) : s \in ReportTexts}
        \cup {Object(<<Property("markdownReport", v)>>) : v \in PropertyValues}
        \cup {Object(<<Property("tokens", Number(1)),
                       Property("markdownReport", v)>>) : v \in PropertyValues}
        \cup {Object(<<Property("tokens", v)>>) : v \in PropertyValues}

\* The --json option as commander gives it: true when given, else undefined.
JsonOptions == {"true", "undefined"}

RECURSIVE Quote(_)
\* The characters of a string inside a JSON string literal.
Quote(str) ==
    IF str = <<>> THEN <<>>
    ELSE (IF Head(str) \in {"\"", "\\"} THEN <<"\\", Head(str)>>
          ELSE IF Head(str) = "\n" THEN <<"\\", "n">>
          ELSE <<Head(str)>>) \o Quote(Tail(str))

\* A JSON string literal.
QuoteString(str) == <<"\"">> \o Quote(str) \o <<"\"">>

\* JSON.stringify of a value that is not an object or an array; what it
\* gives for undefined is undefined, not a string.
StringifyPrimitive(value) ==
    IF value.type = "string" THEN Text(QuoteString(value.text))
    ELSE IF value.type = "number" THEN Text(NumberToString(value.value, 10))
    ELSE IF value.type = "null" THEN Text(<<"n", "u", "l", "l">>)
    ELSE Absent

RECURSIVE StringifyProperties(_, _)
\* The serialized properties of an object at indent 2, those with an
\* undefined value left out, separated by a comma and a line break.
StringifyProperties(properties, first) ==
    IF properties = <<>> THEN <<>>
    ELSE LET p == Head(properties)
             v == StringifyPrimitive(p.value)
         IN  IF ~v.has
                 THEN StringifyProperties(Tail(properties), first)
                 ELSE (IF first THEN <<>> ELSE <<",">>)
                          \o <<"\n", " ", " ">> \o QuoteString(<<p.key>>)
                          \o <<":", " ">> \o v.text
                          \o StringifyProperties(Tail(properties), FALSE)

\* JSON.stringify(value, null, 2) for the sampled values.
JSONStringify(value) ==
    IF value.type = "object"
        THEN LET inner == StringifyProperties(value.properties, TRUE)
             IN  IF inner = <<>> THEN Text(<<"{", "}">>)
                 ELSE Text(<<"{">> \o inner \o <<"\n", "}">>)
    ELSE IF value.type = "array" THEN Text(<<"[", "]">>)
    ELSE StringifyPrimitive(value)

\* The line console.log writes for a string, or for undefined.
ConsoleLog(value) ==
    [kind |-> "console.log",
     what |-> IF value.has THEN value.text
              ELSE <<"u", "n", "d", "e", "f", "i", "n", "e", "d">>]

\* obj.markdownReport: the value of the last property of that name.
RECURSIVE GetProperty(_, _)
GetProperty(properties, key) ==
    IF properties = <<>> THEN Undefined
    ELSE IF properties[Len(properties)].key = key
        THEN properties[Len(properties)].value
        ELSE GetProperty(SubSeq(properties, 1, Len(properties) - 1), key)

\* result && typeof result === 'object'
IsObjectLike(result) == result.type \in {"object", "array"}

\* The named properties of an object; the sampled array has none.
PropertiesOf(result) ==
    IF result.type = "object" THEN result.properties ELSE <<>>

\* typeof obj.markdownReport === 'string'
HasStringReport(result) ==
    GetProperty(PropertiesOf(result), "markdownReport").type = "string"

\* printResult with the report looked for before the --json option.
printResult_reportFirst(result, json) ==
    IF IsObjectLike(result) /\ HasStringReport(result)
        THEN << ConsoleLog(Text(GetProperty(PropertiesOf(result),
                                            "markdownReport").text)) >>
    ELSE IF json = "true"
        THEN << ConsoleLog(JSONStringify(result)) >>
    ELSE IF result.type = "string"
        THEN << ConsoleLog(Text(result.text)) >>
        ELSE << ConsoleLog(JSONStringify(result)) >>

\* printResult: the lines it writes to the console, in order.
printResult(result, json) ==
    IF json = "true"
        THEN << ConsoleLog(JSONStringify(result)) >>
    ELSE IF result.type = "string"
        THEN << ConsoleLog(Text(result.text)) >>
    ELSE IF IsObjectLike(result) /\ HasStringReport(result)
        THEN << ConsoleLog(Text(GetProperty(PropertiesOf(result),
                                            "markdownReport").text)) >>
        ELSE << ConsoleLog(JSONStringify(result)) >>

(***************************************************************************)
(* The accessibility audit (src/unnamed/part_001) and the WCAG rules it    *)
(* puts in its prompt.                                                     *)
(***************************************************************************)
\* A rule of WCAG_RULES, by its id and level.
Rule(id, level) == [id |-> id, level |-> level]

\* WCAG_RULES, in the order of the table.
WCAG_RULES ==
    << Rule("1.1.1", "A"), Rule("1.2.1", "A"), Rule("1.2.2", "A"),
       Rule("1.2.3", "A"), Rule("1.2.5", "AA"), Rule("1.3.1", "A"),
       Rule("1.3.2", "A"), Rule("1.3.3", "A"), Rule("1.3.4", "AA"),
       Rule("1.3.5", "AA"), Rule("1.4.1", "A"), Rule("1.4.2", "A"),
       Rule("1.4.3", "AA"), Rule("1.4.4", "AA"), Rule("1.4.5", "AA"),
       Rule("1.4.10", "AA"), Rule("1.4.11", "AA"), Rule("1.4.12", "AA"),
       Rule("1.4.13", "AA"), Rule("2.1.1", "A"), Rule("2.1.2", "A"),
       Rule("2.1.4", "A"), Rule("2.2.1", "A"), Rule("2.2.2", "A"),
       Rule("2.3.1", "A"), Rule("2.4.1", "A"), Rule("2.4.2", "A"),
       Rule("2.4.3", "A"), Rule("2.4.4", "A"), Rule("2.4.5", "AA"),
       Rule("2.4.6", "AA"), Rule("2.4.7", "AA"), Rule("2.4.11", "AA"),
       Rule("2.5.1", "A"), Rule("2.5.2", "A"), Rule("2.5.3", "A"),
       Rule("2.5.4", "A"), Rule("2.5.7", "AA"), Rule("2.5.8", "AA"),
       Rule("3.1.1", "A"), Rule("3.1.2", "AA"), Rule("3.2.1", "A"),
       Rule("3.2.2", "A"), Rule("3.2.3", "AA"), Rule("3.2.4", "AA"),
       Rule("3.2.6", "A"), Rule("3.3.1", "A"), Rule("3.3.2", "A"),
       Rule("3.3.3", "AA"), Rule("3.3.4", "AA"), Rule("3.3.7", "A"),
       Rule("3.3.8", "AA"), Rule("4.1.2", "A"), Rule("4.1.3", "AA") >>

\* The standard argument of the audit tool, as text: not given, empty, one
\* ending in each level, one with four A's, and one without the hyphen.
Standards ==
    {Absent, Text(<<>>), Text(<<"2", ".", "2", "-", "A">>),
     Text(<<"-", "A", "A">>), Text(<<"w", "-", "A", "A", "A">>),
     Text(<<"-", "A", "A", "A", "A">>), Text(<<"A", "A">>)}

\* The lengths k for which the text ends in a hyphen and k letters A.
LevelMatches(str) ==
    {k \in 1..3 :
        /\ Len(str) > k
        /\ str[Len(str) - k] = "-"
        /\ \A i \in (Len(str) - k + 1)..Len(str) : str[i] = "A"}

\* parseWcagLevel: the level matched by /-(A{1,3})$/, or undefined.
parseWcagLevel(standard) ==
    IF ~Truthy(standard) \/ LevelMatches(standard.text) = {}
        THEN "undefined"
        ELSE LET k == CHOOSE n \in LevelMatches(standard.text) : TRUE
             IN  IF k = 1 THEN "A" ELSE IF k = 2 THEN "AA" ELSE "AAA"

\* input.wcagLevel ?? 'AA'
levelOrDefault(wcagLevel) == IF wcagLevel = "undefined" THEN "AA" ELSE wcagLevel

\* The filter of buildPrompt with level AA keeping only the rules of level AA.
relevantRules_onlyOwnLevel(level) ==
    SelectSeq(WCAG_RULES,
              LAMBDA rule :
                  IF level = "A" THEN rule.level = "A"
                  ELSE IF level = "AA" THEN rule.level = "AA"
                  ELSE TRUE)

\* relevantRules of buildPrompt: WCAG_RULES filtered by the level.
relevantRules(level) ==
    SelectSeq(WCAG_RULES,
              LAMBDA rule :
                  IF level = "A" THEN rule.level = "A"
                  ELSE IF level = "AA" THEN rule.level \in {"A", "AA"}
                  ELSE TRUE)

\* buildPrompt of the audit: the user message, by its parts.
AuditBuildPrompt(input) ==
    [targetType |-> input.targetType,
     target |-> input.target,
     level |-> levelOrDefault(input.wcagLevel),
     rulesSummary |-> relevantRules(levelOrDefault(input.wcagLevel))]

\* The findings of a sampled reply, by criterion and severity.  The reply is
\* cast to LLMAuditResponse, not checked: "high" is a severity outside
\* AuditSeverity that a reply can carry.
Finding(criterion, severity) == [criterion |-> criterion, severity |-> severity]

SampledFindings ==
    {Finding("1.1.1", "critical"), Finding("1.4.3", "critical"),
     Finding("1.1.1", "major"), Finding("1.1.1", "minor"),
     Finding("1.4.3", "minor"), Finding("1.1.1", "high")}

\* The longest findings array of a sampled reply.
MaxFindings == 3

FindingLists == SeqsUpTo(SampledFindings, MaxFindings)

\* The parsed replies of the audit: every sampled findings array with one
\* passed criterion, and the empty reply.
AuditResponses ==
    { [findings |-> f, passedCriteria |-> << "2.4.2" >>] : f \in FindingLists }
        \cup { [findings |-> <<>>, passedCriteria |-> <<>>] }

\* The inputs of the audit made of a standard: a valid target and the level
\* parsed from the standard.
AuditInputOf(standard) ==
    [target |-> Text(<<"<", "p", ">">>), targetType |-> "html",
     wcagLevel |-> parseWcagLevel(standard)]

\* const severityOrder of generateReport
severityOrder == [critical |-> 0, major |-> 1, minor |-> 2]

\* The comparator of the sort: the difference of the two ranks, which is
\* NaN when a severity has no rank.
compareSeverity(a, b) ==
    IF a.severity \in DOMAIN severityOrder /\ b.severity \in DOMAIN severityOrder
        THEN Num(severityOrder[a.severity] - severityOrder[b.severity], 1)
        ELSE NaN

\* The comparison Array.prototype.sort makes: a NaN of the comparator counts
\* as 0.
SortCompare(a, b) ==
    IF compareSeverity(a, b).nan THEN 0 ELSE compareSeverity(a, b).num

\* Whether the comparator is a consistent one for the items, as
\* Array.prototype.sort requires for a defined order.
IsConsistent(items) ==
    LET S == {items[i] : i \in 1..Len(items)}
    IN  \A a \in S, b \in S, c \in S :
            /\ (SortCompare(a, b) = 0 /\ SortCompare(b, c) = 0
                    => SortCompare(a, c) = 0)
            /\ (SortCompare(a, b) < 0 /\ SortCompare(b, c) < 0
                    => SortCompare(a, c) < 0)
            /\ (SortCompare(a, b) > 0 /\ SortCompare(b, c) > 0
                    => SortCompare(a, c) > 0)
            /\ (SortCompare(a, b) < 0 <=> SortCompare(b, a) > 0)

RECURSIVE InsertStable(_, _)
\* x placed among sorted items after every item that is not greater.
InsertStable(sorted, x) ==
    IF sorted = <<>> THEN <<x>>
    ELSE IF SortCompare(sorted[Len(sorted)], x) <= 0
        THEN Append(sorted, x)
        ELSE Append(InsertStable(SubSeq(sorted, 1, Len(sorted) - 1), x),
                    sorted[Len(sorted)])

RECURSIVE StableSort(_)
\* The sorted copy a stable sort gives.
StableSort(items) ==
    IF items = <<>> THEN <<>>
    ELSE InsertStable(StableSort(SubSeq(items, 1, Len(items) - 1)),
                      items[Len(items)])

\* The orders of the items: one for each permutation of the positions.
OrdersOf(items) ==
    { [i \in 1..Len(items) |-> items[p[i]]] :
          p \in {q \in [1..Len(items) -> 1..Len(items)] :
                     \A i, j \in 1..Len(items) : q[i] = q[j] => i = j} }

\* [...findings].sort(...): the stable order when the comparator is
\* consistent; otherwise the order is implementation-defined, any of them.
SortOutcomes(items) ==
    IF IsConsistent(items) THEN {StableSort(items)} ELSE OrdersOf(items)

\* The icon of a finding in the report.
IconOf(severity) ==
    IF severity = "critical" THEN "red"
    ELSE IF severity = "major" THEN "orange" ELSE "yellow"

\* result.findings.filter((f) => f.severity === severity).length
CountSeverity(findings, severity) ==
    Cardinality({i \in 1..Len(findings) : findings[i].severity = severity})

\* const summary of execute
AuditSummary(response) ==
    [totalFindings |-> Len(response.findings),
     critical |-> CountSeverity(response.findings, "critical"),
     major |-> CountSeverity(response.findings, "major"),
     minor |-> CountSeverity(response.findings, "minor"),
     passedCriteria |-> response.passedCriteria]

\* generateReport of the audit, by its parts: the head, the summary table,
\* the passed criteria, and the numbered findings in the order of sorted (or
\* the line that says there are none).
AuditGenerateReport(input, summary, findings, sorted) ==
    [level |-> levelOrDefault(input.wcagLevel),
     targetType |-> input.targetType,
     table |-> << summary.critical, summary.major, summary.minor,
                  summary.totalFindings >>,
     passed |-> summary.passedCriteria,
     noIssues |-> findings = <<>>,
     findings |-> IF findings = <<>> THEN <<>>
                  ELSE [i \in 1..Len(sorted) |->
                           [number |-> i,
                            icon |-> IconOf(sorted[i].severity),
                            criterion |-> sorted[i].criterion,
                            severity |-> sorted[i].severity]]]

\* execute of the audit for a reply that parses to response, sorted being
\* the order the sort of generateReport gives.
AuditExecute(input, response, sorted) ==
    LET invalid  == CapabilityValidateInput("accessibility-audit", input)
        validate == [kind |-> "validateInput", what |-> "accessibility-audit"]
        ask      == [kind |-> "chatJSON", what |-> "accessibility-audit"]
        request  == [capability |-> "accessibility-audit", maxTokens |-> 8192,
                     userMessage |-> AuditBuildPrompt(input)]
    IN  IF invalid # NoError
            THEN [err |-> invalid, ret |-> <<>>, requests |-> <<>>,
                  events |-> <<validate>>]
            ELSE [err |-> NoError,
                  ret |-> << [summary |-> AuditSummary(response),
                              findings |-> response.findings,
                              markdownReport |->
                                  AuditGenerateReport(
                                      input, AuditSummary(response),
                                      response.findings, sorted)] >>,
                  requests |-> <<request>>,
                  events |-> <<validate, ask>>]

(***************************************************************************)
(* The design critique (src/src/capabilities/design-critique.ts): the      *)
(* overall score made of the heuristic scores of the reply.  The reply is  *)
(* cast to LLMCritiqueResponse, not checked, so a score is whatever JSON   *)
(* value the model wrote: a number, a string, or nothing.                  *)
(***************************************************************************)
\* The number NaN.
NotANumber == [type |-> "nan"]

RangeError == [name |-> "RangeError", code |-> ""]

\* An entry of heuristicScores.
HeuristicScore(score, maxScore) == [score |-> score, maxScore |-> maxScore]

\* The entries of the sampled replies: scores within and outside 0..maxScore,
\* a score written as a string, an entry without a score, and a maxScore
\* of 0.
SampledScores ==
    {HeuristicScore(Number(0), Number(10)),
     HeuristicScore(Number(7), Number(10)),
     HeuristicScore(Number(10), Number(10)),
     HeuristicScore(Number(12), Number(10)),
     HeuristicScore(Number(0 - 1), Number(10)),
     HeuristicScore(Str(<<"7">>), Number(10)),
     HeuristicScore(Str(<<"8">>), Number(10)),
     HeuristicScore(Undefined, Number(10)),
     HeuristicScore(Number(0), Number(0))}

\* The longest heuristicScores array of a sampled reply.
MaxHeuristicScores == 2

HeuristicScoreLists == SeqsUpTo(SampledScores, MaxHeuristicScores)

\* ToString of a sampled value.
ToStringOf(value) ==
    IF value.type = "string" THEN value.text
    ELSE IF value.type = "number" THEN NumberToString(value.value, 10)
    ELSE IF value.type = "nan" THEN <<"N", "a", "N">>
    ELSE <<"u", "n", "d", "e", "f", "i", "n", "e", "d">>

RECURSIVE DigitsToNat(_)
\* The number a string of decimal digits denotes.
DigitsToNat(str) ==
    IF str = <<>> THEN 0
    ELSE 10 * DigitsToNat(SubSeq(str, 1, Len(str) - 1))
             + (CHOOSE d \in 0..9 : DigitChars[d + 1] = str[Len(str)])

\* ToNumber of a sampled value: a string of digits is its number, with a
\* leading minus sign its negative, the empty string 0, any other string
\* and undefined NaN.
ToNumberOf(value) ==
    IF value.type = "number" \/ value.type = "nan" THEN value
    ELSE IF value.type # "string" THEN NotANumber
    ELSE LET str    == value.text
             digits == IF str # <<>> /\ str[1] = "-" THEN Tail(str) ELSE str
         IN  IF str = <<>> THEN Number(0)
             ELSE IF digits = <<>>
                     \/ \E i \in 1..Len(digits) :
                            \A d \in 0..9 : DigitChars[d + 1] # digits[i]
                 THEN NotANumber
             ELSE IF digits = str THEN Number(DigitsToNat(digits))
             ELSE Number(0 - DigitsToNat(digits))

\* a + b: the concatenation when either is a string, else the sum of the
\* numbers, which is NaN when either is not a number.
Plus(a, b) ==
    IF a.type = "string" \/ b.type = "string"
        THEN Str(ToStringOf(a) \o ToStringOf(b))
    ELSE IF ToNumberOf(a).type = "nan" \/ ToNumberOf(b).type = "nan"
        THEN NotANumber
        ELSE Number(ToNumberOf(a).value + ToNumberOf(b).value)

\* a - b
Minus(a, b) ==
    IF ToNumberOf(a).type = "nan" \/ ToNumberOf(b).type = "nan"
        THEN NotANumber
        ELSE Number(ToNumberOf(a).value - ToNumberOf(b).value)

RECURSIVE ReduceScore(_, _)
\* scores.reduce((sum, s) => sum + s.score, 0)
ReduceScore(scores, sum) ==
    IF scores = <<>> THEN sum
    ELSE ReduceScore(Tail(scores), Plus(sum, Head(scores).score))

RECURSIVE ReduceMaxScore(_, _)
\* scores.reduce((sum, s) => sum + s.maxScore, 0)
ReduceMaxScore(scores, sum) ==
    IF scores = <<>> THEN sum
    ELSE ReduceMaxScore(Tail(scores), Plus(sum, Head(scores).maxScore))

\* Math.round((total / max) * 100) for max > 0; the quotient of the sampled
\* values is far from a half where it is not one exactly.
RoundedPercent(total, max) ==
    IF ToNumberOf(total).type = "nan"
        THEN NotANumber
        ELSE Number(MathRound(100 * ToNumberOf(total).value,
                              ToNumberOf(max).value))

\* calculateOverallScore
calculateOverallScore(scores) ==
    IF scores = <<>> THEN Number(0)
    ELSE IF ToNumberOf(ReduceMaxScore(scores, Number(0))).type = "number"
            /\ ToNumberOf(ReduceMaxScore(scores, Number(0))).value > 0
        THEN RoundedPercent(ReduceScore(scores, Number(0)),
                            ReduceMaxScore(scores, Number(0)))
        ELSE Number(0)

\* Whether String.prototype.repeat(count) throws: the count, NaN taken as 0,
\* is negative.
RepeatThrows(count) ==
    ToNumberOf(count).type = "number" /\ ToNumberOf(count).value < 0

\* Whether a row of the heuristic table of generateReport throws.
BarThrows(hs) ==
    RepeatThrows(hs.score) \/ RepeatThrows(Minus(hs.maxScore, hs.score))

\* generateReport of the critique: the RangeError of the first bar that
\* cannot be drawn, or the report by its overall score and rows.
CritiqueGenerateReport(input, data, overallScore) ==
    IF \E i \in 1..Len(data.heuristicScores) : BarThrows(data.heuristicScores[i])
        THEN [err |-> RangeError, ret |-> <<>>]
        ELSE [err |-> NoError,
              ret |-> << [targetType |-> input.targetType,
                          overallScore |-> overallScore,
                          rows |-> data.heuristicScores] >>]

\* The result of execute of the critique given the report.
CritiqueResult(data, overallScore, report) ==
    IF report.err # NoError
        THEN [err |-> report.err, ret |-> <<>>]
        ELSE [err |-> NoError,
              ret |-> << [heuristicScores |-> data.heuristicScores,
                          overallScore |-> overallScore,
                          markdownReport |-> report.ret[1]] >>]

\* The part of execute of the critique after the reply parsed to data.
CritiqueScored(input, data, overallScore) ==
    CritiqueResult(data, overallScore,
                   CritiqueGenerateReport(input, data, overallScore))

\* The valid input of the sampled critique calls.
CritiqueInput ==
    [target |-> Text(<<"u", "i">>), targetType |-> "ui-description"]

\* execute of the critique for a reply that parses to data.
CritiqueExecute(input, data) ==
    IF CapabilityValidateInput("design-critique", input) # NoError
        THEN [err |-> CapabilityValidateInput("design-critique", input),
              ret |-> <<>>, requests |-> <<>>,
              events |-> << [kind |-> "validateInput",
                             what |-> "design-critique"] >>]
        ELSE [err |-> CritiqueScored(
                          input, data,
                          calculateOverallScore(data.heuristicScores)).err,
              ret |-> CritiqueScored(
                          input, data,
                          calculateOverallScore(data.heuristicScores)).ret,
              requests |-> << [capability |-> "design-critique",
                               maxTokens |-> 8192] >>,
              events |-> << [kind |-> "validateInput",
                             what |-> "design-critique"],
                            [kind |-> "chatJSON",
                             what |-> "design-critique"] >>]

\* The callers that may have an execute call in progress on one UXPilot.
MaxCallers == 2

Callers == 1..MaxCallers

\* The capability ids the concurrent callers ask for.
PilotIds == {"design-system", "user-flow"}

\* A caller with no call in progress.
NoCall == [pc |-> "idle", id |-> "", instance |-> 0]

(***************************************************************************)
(* The state machine: a caller invokes one exported operation at a time.   *)
(***************************************************************************)
Init ==
    /\ call = [op |-> "none", args |-> <<>>]
    /\ ret = <<>>
    /\ hslCalls = <<>>
    /\ err = NoError
    /\ llmCalls = <<>>
    /\ tables = [STANDARD_COLOR_SHADES |-> STANDARD_COLOR_SHADES,
                 TYPE_SCALE_RATIOS |-> TYPE_SCALE_RATIOS]
    /\ events = <<>>
    /\ capabilities = [id \in CapabilityIds |-> 0]
    /\ constructed = [id \in CapabilityIds |-> 0]
    /\ callers = [c \in Callers |-> NoCall]

\* No invocation is in progress: the caller may start one.
Idle == call.op = "none"

\* The caller takes the result; the module's tables stay loaded.
Return ==
    /\ ~Idle
    /\ call' = [op |-> "none", args |-> <<>>]
    /\ ret' = <<>>
    /\ hslCalls' = <<>>
    /\ err' = NoError
    /\ llmCalls' = <<>>
    /\ tables' = tables
    /\ events' = <<>>
    /\ UNCHANGED pilotVars

CallHslToHex ==
    /\ Idle
    /\ \E h \in Hues, s \in WholeSaturations, l \in Lightnesses :
        /\ call' = [op |-> "hslToHex", args |-> <<h, s, l>>]
        /\ ret' = hslToHex(h, s, l)
        /\ hslCalls' = <<[h |-> h, s |-> s, l |-> l]>>
        /\ err' = NoError
        /\ llmCalls' = <<>>
        /\ tables' = tables
        /\ events' = <<>>
        /\ UNCHANGED pilotVars

CallGenerateColorScale ==
    /\ Idle
    /\ \E h \in Hues, s \in Saturations :
        LET config == [name |-> "primary", hue |-> h, saturation |-> s]
        IN  /\ call' = [op |-> "generateColorScale", args |-> <<config>>]
            /\ ret' = generateColorScaleFrom(tables.STANDARD_COLOR_SHADES,
                                             config)
            /\ hslCalls' = [i \in 1..Len(tables.STANDARD_COLOR_SHADES) |->
                               hslArgs(config,
                                       tables.STANDARD_COLOR_SHADES[i])]
            /\ err' = NoError
            /\ llmCalls' = <<>>
            /\ tables' = [tables EXCEPT !.STANDARD_COLOR_SHADES =
                                            shadesAfterMap(@)]
            /\ events' = <<>>
            /\ UNCHANGED pilotVars

CallGenerateTypeScale ==
    /\ Idle
    /\ \E baseSizePx \in BaseSizes, ratio \in RatioArguments :
        /\ call' = [op |-> "generateTypeScale", args |-> <<baseSizePx, ratio>>]
        /\ ret' = generateTypeScaleFrom(tables.TYPE_SCALE_RATIOS,
                                        baseSizePx, ratio)
        /\ hslCalls' = <<>>
        /\ err' = NoError
        /\ llmCalls' = <<>>
        /\ tables' = tables
        /\ events' = <<>>
        /\ UNCHANGED pilotVars

CallGenerateSpacingScale ==
    /\ Idle
    /\ \E args \in {<<>>} \cup {<<u>> : u \in BaseUnits} :
        /\ call' = [op |-> "generateSpacingScale", args |-> args]
        /\ ret' = generateSpacingScale(baseUnitOf(args))
        /\ hslCalls' = <<>>
        /\ err' = NoError
        /\ llmCalls' = <<>>
        /\ tables' = tables
        /\ events' = <<>>
        /\ UNCHANGED pilotVars

CallDesignSystemExecute ==
    /\ Idle
    /\ \E input \in DesignSystemInputs, reply \in LLMReplies :
        LET outcome == CapabilityExecute("design-system", input, reply)
        IN  /\ call' = [op |-> "DesignSystemCapability.execute",
                        args |-> <<input>>]
            /\ ret' = outcome.ret
            /\ err' = outcome.err
            /\ llmCalls' = outcome.requests
            /\ hslCalls' = <<>>
            /\ tables' = tables
            /\ events' = outcome.events
            /\ UNCHANGED pilotVars

\* A caller invokes execute of one of the other capabilities.
CallCapabilityExecute ==
    /\ Idle
    /\ \E id \in CapabilityIds \ {"design-system"} :
        \E input \in CapabilityInputs(id), reply \in CapabilityReplies(id) :
            LET outcome == CapabilityExecute(id, input, reply)
            IN  /\ call' = [op |-> "Capability.execute", args |-> <<id, input>>]
                /\ ret' = outcome.ret
                /\ err' = outcome.err
                /\ llmCalls' = outcome.requests
                /\ hslCalls' = <<>>
                /\ tables' = tables
                /\ events' = outcome.events
                /\ UNCHANGED pilotVars

\* A caller invokes execute of a UXPilot instance that has or has not the
\* capability in its cache.
CallUXPilotExecute ==
    /\ Idle
    /\ \E id \in CapabilityIdArguments, cached \in BOOLEAN,
       imported \in ImportResults :
        \E input \in InputsFor(id), reply \in RepliesFor(id) :
            LET outcome == UXPilotExecute(id, input, reply, cached, imported)
            IN  /\ cached => (id \in CapabilityIds /\ imported = "module")
                /\ call' = [op |-> "UXPilot.execute",
                            args |-> <<id, input, cached>>]
                /\ ret' = outcome.ret
                /\ err' = outcome.err
                /\ llmCalls' = outcome.requests
                /\ hslCalls' = <<>>
                /\ tables' = tables
                /\ events' = outcome.events
                /\ UNCHANGED pilotVars

\* An MCP client sends a tools/call request.
CallTool ==
    /\ Idle
    /\ \E name \in ToolNames, apiKey \in ApiKeys, imported \in ImportResults :
        \E args \in ArgumentsFor(name), reply \in RepliesForTool(name) :
            LET outcome == CallToolHandler(name, apiKey, args, reply, imported)
            IN  /\ call' = [op |-> "CallTool",
                            args |-> <<name, args, apiKey>>]
                /\ ret' = outcome.ret
                /\ err' = outcome.err
                /\ llmCalls' = outcome.requests
                /\ hslCalls' = <<>>
                /\ tables' = tables
                /\ events' = outcome.events
                /\ UNCHANGED pilotVars

CallPrintResult ==
    /\ Idle
    /\ \E result \in Results, json \in JsonOptions :
        /\ call' = [op |-> "printResult", args |-> <<result, json>>]
        /\ ret' = <<>>
        /\ hslCalls' = <<>>
        /\ err' = NoError
        /\ llmCalls' = <<>>
        /\ tables' = tables
        /\ events' = printResult(result, json)
        /\ UNCHANGED pilotVars

\* A caller invokes execute of the accessibility audit with an input made
\* of a standard, and the model's reply parses to a response.
CallAuditExecute ==
    /\ Idle
    /\ \E standard \in Standards, response \in AuditResponses :
        /\ standard = Absent \/ response.findings = <<>>
        /\ \E sorted \in SortOutcomes(response.findings) :
               LET outcome == AuditExecute(AuditInputOf(standard), response,
                                           sorted)
               IN  /\ call' = [op |-> "AccessibilityAudit.execute",
                               args |-> <<AuditInputOf(standard), response,
                                          standard>>]
                   /\ ret' = outcome.ret
                   /\ err' = outcome.err
                   /\ llmCalls' = outcome.requests
                   /\ hslCalls' = <<>>
                   /\ tables' = tables
                   /\ events' = outcome.events
                   /\ UNCHANGED pilotVars

\* A caller invokes execute of the design critique, and the model's reply
\* parses to a response with the sampled heuristic scores.
CallCritiqueExecute ==
    /\ Idle
    /\ \E scores \in HeuristicScoreLists :
        /\ call' = [op |-> "DesignCritique.execute",
                    args |-> <<CritiqueInput, [heuristicScores |-> scores]>>]
        /\ ret' = CritiqueExecute(CritiqueInput,
                                  [heuristicScores |-> scores]).ret
        /\ err' = CritiqueExecute(CritiqueInput,
                                  [heuristicScores |-> scores]).err
        /\ llmCalls' = CritiqueExecute(CritiqueInput,
                                       [heuristicScores |-> scores]).requests
        /\ hslCalls' = <<>>
        /\ tables' = tables
        /\ events' = CritiqueExecute(CritiqueInput,
                                     [heuristicScores |-> scores]).events
        /\ UNCHANGED pilotVars

Next ==
    \/ CallHslToHex
    \/ CallGenerateColorScale
    \/ CallGenerateTypeScale
    \/ CallGenerateSpacingScale
    \/ CallDesignSystemExecute
    \/ CallCapabilityExecute
    \/ CallUXPilotExecute
    \/ CallTool
    \/ CallPrintResult
    \/ CallAuditExecute
    \/ CallCritiqueExecute
    \/ Return

Spec == Init /\ [][Next]_vars

(***************************************************************************)
(* Concurrent execute calls on one UXPilot.  loadCapability reads the      *)
(* cache, and on a miss awaits import(modulePath) before it constructs the *)
(* capability and stores it; other calls run while it waits.               *)
(***************************************************************************)
\* execute(capabilityId, input), up to the await of import: a cached
\* instance is used at once, otherwise the import is started.
StartExecute(c) ==
    \E id \in PilotIds :
        /\ callers[c].pc = "idle"
        /\ callers' = [callers EXCEPT ![c] =
               IF capabilities[id] # 0
                   THEN [pc |-> "executing", id |-> id,
                         instance |-> capabilities[id]]
                   ELSE [pc |-> "importing", id |-> id, instance |-> 0]]
        /\ UNCHANGED <<capabilities, constructed>>
        /\ UNCHANGED callVars

\* The import resolves: new CapClass(this.llm), this.capabilities.set(id,
\* instance), and execute goes on with that instance.
ImportResolves(c) ==
    LET id       == callers[c].id
        instance == constructed[id] + 1
    IN  /\ callers[c].pc = "importing"
        /\ constructed' = [constructed EXCEPT ![id] = instance]
        /\ capabilities' = [capabilities EXCEPT ![id] = instance]
        /\ callers' = [callers EXCEPT ![c] =
               [pc |-> "executing", id |-> id, instance |-> instance]]
        /\ UNCHANGED callVars

\* The import rejects: loadCapability throws CAPABILITY_NOT_FOUND and the
\* call is over.
ImportRejects(c) ==
    /\ callers[c].pc = "importing"
    /\ callers' = [callers EXCEPT ![c] = NoCall]
    /\ UNCHANGED <<capabilities, constructed>>
    /\ UNCHANGED callVars

\* capability.execute(input) settles and the call is over.
ExecuteSettles(c) ==
    /\ callers[c].pc = "executing"
    /\ callers' = [callers EXCEPT ![c] = NoCall]
    /\ UNCHANGED <<capabilities, constructed>>
    /\ UNCHANGED callVars

PilotNext ==
    \E c \in Callers :
        \/ StartExecute(c)
        \/ ImportResolves(c)
        \/ ImportRejects(c)
        \/ ExecuteSettles(c)

PilotSpec == Init /\ [][PilotNext]_vars

(***************************************************************************)
(* Properties of the color scale and of the HSL to hex conversion.         *)
(***************************************************************************)
Abs(x) == IF x < 0 THEN -x ELSE x

HexDigitChars == {DigitChars[i] : i \in 1..16}

IsHexColor(str) ==
    /\ Len(str) = 7
    /\ str[1] = "#"
    /\ \A i \in 2..7 : str[i] \in HexDigitChars

ExtremeShades == {50, 100, 900}

\* C1: generateColorScale returns exactly 10 stops whose shades are
\* 50, 100, 200, 300, 400, 500, 600, 700, 800, 900 in that order, whatever
\* the hue and saturation.
C1_TenStopsInShadeOrder ==
    call.op = "generateColorScale" =>
        /\ Len(ret) = 10
        /\ [i \in 1..Len(ret) |-> ret[i].shade]
               = <<50, 100, 200, 300, 400, 500, 600, 700, 800, 900>>

C1_Witness ==
    /\ call.op = "generateColorScale"
    /\ call.args[1].hue = 359
    /\ call.args[1].saturation = 100 * SatDen
    /\ Len(ret) = 10

\* C2 as stated: the saturation handed to hslToHex is exactly 0.7 times the
\* input saturation for the stops of shade 50, 100 and 900, and exactly the
\* input saturation for every other stop.
C2_ExactlySeventyPercent ==
    call.op = "generateColorScale" =>
        \A i \in 1..Len(hslCalls) :
            IF ret[i].shade \in ExtremeShades
                THEN 10 * SatDen * hslCalls[i].s = 7 * call.args[1].saturation
                ELSE SatDen * hslCalls[i].s = call.args[1].saturation

\* C2 amended: the saturation handed to hslToHex is a whole number within
\* one half of 0.7 times the input saturation for the stops of shade 50, 100
\* and 900, and within one half of the input saturation for every other
\* stop (the code rounds to the nearest integer before the conversion).
C2_RoundedSaturation ==
    call.op = "generateColorScale" =>
        /\ Len(hslCalls) = Len(ret)
        /\ \A i \in 1..Len(hslCalls) :
              LET target == IF ret[i].shade \in ExtremeShades
                                THEN 7 * call.args[1].saturation
                                ELSE 10 * call.args[1].saturation
              IN  2 * Abs(10 * SatDen * hslCalls[i].s - target) <= 10 * SatDen

C2_Witness ==
    /\ call.op = "generateColorScale"
    /\ (7 * call.args[1].saturation) % (10 * SatDen) # 0
    /\ Len(hslCalls) = 10
    /\ 10 * SatDen * hslCalls[1].s # 7 * call.args[1].saturation

\* C3: for every hue in [0,360), saturation and lightness in [0,100],
\* hslToHex returns "#" followed by exactly six hexadecimal digits (each
\* channel is rendered as exactly two digits); the same holds of the hex of
\* every stop of a generated color scale.
C3_HexIsSixDigits ==
    /\ call.op = "hslToHex" => IsHexColor(ret)
    /\ call.op = "generateColorScale" =>
           \A i \in 1..Len(ret) : IsHexColor(ret[i].hex)

\* A conversion with a channel below 16, which needs the padding.
C3_Witness ==
    /\ call.op = "hslToHex"
    /\ call.args = <<0, 0, 0>>
    /\ IsHexColor(ret)
    /\ ret[2] = "0"
    /\ ret[3] = "0"

\* C4: hslToHex(0,0,100) is "#ffffff", hslToHex(0,0,0) is "#000000" and
\* hslToHex(0,100,50) is "#ff0000".
C4_ReferenceColors ==
    call.op = "hslToHex" =>
        /\ call.args = <<0, 0, 100>> =>
              ret = <<"#", "f", "f", "f", "f", "f", "f">>
        /\ call.args = <<0, 0, 0>> =>
              ret = <<"#", "0", "0", "0", "0", "0", "0">>
        /\ call.args = <<0, 100, 50>> =>
              ret = <<"#", "f", "f", "0", "0", "0", "0">>

C4_Witness ==
    /\ call.op = "hslToHex"
    /\ call.args = <<0, 100, 50>>
    /\ ret = <<"#", "f", "f", "0", "0", "0", "0">>

(***************************************************************************)
(* Properties of the type scale, the spacing scale and the rem strings.    *)
(***************************************************************************)
RECURSIVE BigLeq(_, _)
\* x <= y for two numbers in base-1000 digits without leading zeros.
BigLeq(x, y) ==
    IF Len(x) # Len(y) THEN Len(x) < Len(y)
    ELSE IF x = <<>> THEN TRUE
    ELSE IF x[Len(x)] # y[Len(y)] THEN x[Len(x)] < y[Len(y)]
    ELSE BigLeq(SubSeq(x, 1, Len(x) - 1), SubSeq(y, 1, Len(y) - 1))

\* |a - b| <= c
BigWithin(a, b, c) == BigLeq(a, BigAdd(b, c)) /\ BigLeq(b, BigAdd(a, c))

RECURSIVE BigPow(_, _)
BigPow(b, n) == IF n = 0 THEN <<1>> ELSE BigMul(BigPow(b, n - 1), b)

\* p is an integer nearest to 100 * base * r^e, for base in units of
\* 1/BaseDen and r in thousandths: |p - N/D| <= 1/2 with
\* N/D = 100 * (base/BaseDen) * (r/1000)^e.
IsPxOfPower(p, base, r, e) ==
    LET n == BigMul(BigMul(BigPow(IF e > 0 THEN r ELSE 1000, Abs(e)), base), 100)
        d == BigMul(BigPow(IF e > 0 THEN 1000 ELSE r, Abs(e)), BaseDen)
    IN  BigWithin(BigMul(BigMul(d, p), 2), BigMul(n, 2), d)

TypeStepNames ==
    <<"xs", "sm", "base", "lg", "xl", "2xl", "3xl", "4xl", "5xl", "display">>

TypeStepExponents == <<-2, -1, 0, 1, 2, 3, 4, 5, 6, 7>>

IsKnownRatioCall ==
    call.op = "generateTypeScale" /\ call.args[2] \in DOMAIN TYPE_SCALE_RATIOS

BaseStepIsBaseSize ==
    /\ ret[3].name = "base"
    /\ ~ret[3].px.nan
    /\ BigProduct(<<ret[3].px.num, BaseDen>>)
           = BigProduct(<<call.args[1], ret[3].px.den>>)

\* C6 as stated: for all ratio names and all base sizes the step named
\* "base" has a px equal to the base size exactly.
C6_BaseStepIsBaseSize ==
    call.op = "generateTypeScale" => BaseStepIsBaseSize

\* The base size has at most two decimals.
HasTwoDecimals(base) == (base * 100) % BaseDen = 0

\* C6 amended: for all ratio names and all base sizes that have at most two
\* decimals, the step named "base" has a px equal to the base size exactly
\* (a base size with more decimals is rounded to two).
C6_BaseStepIsTwoDecimalBaseSize ==
    (call.op = "generateTypeScale" /\ HasTwoDecimals(call.args[1])) =>
        BaseStepIsBaseSize

C6_Witness ==
    /\ call.op = "generateTypeScale"
    /\ call.args[1] = 16 * BaseDen + BaseDen \div 4
    /\ HasTwoDecimals(call.args[1])
    /\ call.args[2] = "golden-ratio"
    /\ BaseStepIsBaseSize

\* C7: a call of generateTypeScale with a ratio name outside the 8 fixed
\* names fails with an error and returns no scale.
C7_UnknownRatioFails ==
    (call.op = "generateTypeScale"
        /\ call.args[2] \notin DOMAIN TYPE_SCALE_RATIOS) =>
            err # NoError /\ ret = <<>>

SpacingStepNames ==
    << <<"0">>, <<"0", ".", "5">>, <<"1">>, <<"1", ".", "5">>, <<"2">>,
       <<"2", ".", "5">>, <<"3">>, <<"4">>, <<"5">>, <<"6">>, <<"7">>,
       <<"8">>, <<"1", "0">>, <<"1", "2">>, <<"1", "4">>, <<"1", "6">>,
       <<"2", "0">>, <<"2", "4">>, <<"2", "8">>, <<"3", "2">> >>

\* Twice the multipliers 0, 0.5, 1, 1.5, 2, 2.5, 3, 4, ..., 32.
SpacingMultipliersTwice ==
    <<0, 1, 2, 3, 4, 5, 6, 8, 10, 12, 14, 16, 20, 24, 28, 32, 40, 48, 56, 64>>

\* px = whole, as a number of pixels.
IsWholePx(px, whole) ==
    ~px.nan /\ BigProduct(<<px.num>>) = BigProduct(<<whole, px.den>>)

DecimalDigitChars == {DigitChars[i] : i \in 1..10}

DigitValue(ch) == CHOOSE v \in 0..9 : DigitChars[v + 1] = ch

\* The position of the decimal point in str, 0 when it has none.
PointAt(str) ==
    IF \E i \in 1..Len(str) : str[i] = "."
        THEN CHOOSE i \in 1..Len(str) : str[i] = "."
        ELSE 0

\* str is digits, optionally followed by a point and more digits.
IsDecimalString(str) ==
    /\ str # <<>>
    /\ str[1] \in DecimalDigitChars
    /\ \A i \in 1..Len(str) :
          str[i] \in DecimalDigitChars \/ (str[i] = "." /\ i = PointAt(str))

RECURSIVE DigitsValue(_)
DigitsValue(str) ==
    IF str = <<>>
        THEN 0
        ELSE 10 * DigitsValue(SubSeq(str, 1, Len(str) - 1))
                 + DigitValue(str[Len(str)])

\* The number of digits after the decimal point.
DecimalsOf(str) == IF PointAt(str) = 0 THEN 0 ELSE Len(str) - PointAt(str)

\* The number a decimal string denotes, as a fraction.
ParseDecimal(str) ==
    [num |-> DigitsValue(SelectSeq(str, LAMBDA ch : ch # ".")),
     den |-> PowerOfTen(DecimalsOf(str))]

\* The rem string without its unit.
RemNumber(rem) == SubSeq(rem, 1, Len(rem) - 3)

HasRemUnit(rem) ==
    Len(rem) > 3 /\ SubSeq(rem, Len(rem) - 2, Len(rem)) = <<"r", "e", "m">>

\* No trailing zero decimals and no bare trailing decimal point.
IsTrimmed(str) ==
    /\ str[Len(str)] # "."
    /\ PointAt(str) # 0 => str[Len(str)] # "0"

\* The steps of both scales.
IsScaleCall == call.op \in {"generateTypeScale", "generateSpacingScale"}

\* C9 as stated: the rem string of every step is the number px/16 followed
\* by "rem", without trailing zero decimals or a bare decimal point, and read
\* back as a number it equals px/16.
C9_RemIsPxOver16 ==
    IsScaleCall =>
        \A i \in 1..Len(ret) :
            /\ HasRemUnit(ret[i].rem)
            /\ IsDecimalString(RemNumber(ret[i].rem))
            /\ IsTrimmed(RemNumber(ret[i].rem))
            /\ ~ret[i].px.nan
            /\ LET parsed == ParseDecimal(RemNumber(ret[i].rem))
               IN  BigProduct(<<parsed.num, ret[i].px.den, 16>>)
                       = BigProduct(<<ret[i].px.num, parsed.den>>)

\* C9 amended: the rem string of every step is px/16 rounded to 4 decimals
\* followed by "rem", without trailing zero decimals or a bare decimal point
\* (16px gives "1rem", 0px gives "0rem"); read back as a number it has at
\* most 4 decimals and differs from px/16 by at most 0.00005.  A step whose
\* px is NaN has the rem string "NaNrem".
C9_RemIsPxOver16To4Decimals ==
    IsScaleCall =>
        \A i \in 1..Len(ret) :
            IF ret[i].px.nan
                THEN ret[i].rem = <<"N", "a", "N", "r", "e", "m">>
                ELSE
                    /\ HasRemUnit(ret[i].rem)
                    /\ IsDecimalString(RemNumber(ret[i].rem))
                    /\ IsTrimmed(RemNumber(ret[i].rem))
                    /\ DecimalsOf(RemNumber(ret[i].rem)) <= 4
                    /\ LET parsed == ParseDecimal(RemNumber(ret[i].rem))
                       IN  BigWithin(
                               BigProduct(<<parsed.num, ret[i].px.den, 16, 20000>>),
                               BigProduct(<<ret[i].px.num, parsed.den, 20000>>),
                               BigProduct(<<parsed.den, ret[i].px.den, 16>>))
                    /\ IsWholePx(ret[i].px, 16) => ret[i].rem = <<"1", "r", "e", "m">>
                    /\ IsWholePx(ret[i].px, 0) => ret[i].rem = <<"0", "r", "e", "m">>

\* The step lg of base 16 and perfect-fourth: 21.33 px, 1.333125 rem.
C9_Witness ==
    /\ call.op = "generateTypeScale"
    /\ call.args = <<16 * BaseDen, "perfect-fourth">>
    /\ ret[4].px = Num(2133, 100)
    /\ ret[4].rem = <<"1", ".", "3", "3", "3", "1", "r", "e", "m">>
    /\ ret[3].rem = <<"1", "r", "e", "m">>

(***************************************************************************)
(* Properties of the contrast report.                                      *)
(***************************************************************************)
IsExecuteReturn ==
    call.op = "DesignSystemCapability.execute" /\ err = NoError

\* C10: every contrast result the system produces has a ratio >= 1, and the
\* ratio is the same whichever of the two colours is the foreground and
\* whichever the background.
C10_ContrastRatioSymmetric ==
    IsExecuteReturn =>
        LET report == ret[1].contrastReport
        IN  /\ \A i \in 1..Len(report) :
                  report[i].ratio.num >= report[i].ratio.den
            /\ \A i, j \in 1..Len(report) :
                  (/\ report[i].foreground = report[j].background
                   /\ report[i].background = report[j].foreground)
                      => report[i].ratio = report[j].ratio

\* C11: in every contrast result the three flags are derived from the ratio
\* with inclusive thresholds: passesAA exactly when ratio >= 4.5, passesAAA
\* exactly when ratio >= 7.0, passesAALargeText exactly when ratio >= 3.0.
C11_FlagsDerivedFromRatio ==
    IsExecuteReturn =>
        LET report == ret[1].contrastReport
        IN  \A i \in 1..Len(report) :
                LET cr == report[i]
                IN  /\ cr.passesAA <=> (10 * cr.ratio.num >= 45 * cr.ratio.den)
                    /\ cr.passesAAA <=> (cr.ratio.num >= 7 * cr.ratio.den)
                    /\ cr.passesAALargeText
                           <=> (cr.ratio.num >= 3 * cr.ratio.den)

\* The request handed a brand colour that is no "#" and six hex digits.
HasMalformedColor ==
    /\ call.op = "DesignSystemCapability.execute"
    /\ \E i \in 1..Len(call.args[1].colors) :
           ~IsHexColor(call.args[1].colors[i])

\* C12: a malformed hex colour given to the contrast evaluation fails at once
\* with an invalid-colour error: the model is not asked and no contrast
\* result is produced.
C12_MalformedColorFails ==
    HasMalformedColor => (err # NoError /\ llmCalls = <<>> /\ ret = <<>>)

(***************************************************************************)
(* Properties of the shared tables.  The three generators are synchronous, *)
(* so a call runs to completion before the next one starts: interleaved    *)
(* callers are calls in some order, which is what the behaviours are.      *)
(***************************************************************************)
\* C13: the generators share no mutable state: whatever calls came before,
\* each call returns what it returns in a freshly loaded module, and the
\* tables STANDARD_COLOR_SHADES and TYPE_SCALE_RATIOS stay as loaded.
C13_CallsAreIndependent ==
    /\ tables.STANDARD_COLOR_SHADES = STANDARD_COLOR_SHADES
    /\ tables.TYPE_SCALE_RATIOS = TYPE_SCALE_RATIOS
    /\ call.op = "generateColorScale" =>
           ret = generateColorScale(call.args[1])
    /\ call.op = "generateTypeScale" =>
           ret = generateTypeScale(call.args[1], call.args[2])
    /\ call.op = "generateSpacingScale" =>
           ret = generateSpacingScale(baseUnitOf(call.args))

C13_Witness ==
    /\ call.op = "generateTypeScale"
    /\ call.args = <<16 * BaseDen, "golden-ratio">>
    /\ ret[4].px = Num(2589, 100)
    /\ tables.STANDARD_COLOR_SHADES[8].shade = 700

(***************************************************************************)
(* Properties of the capabilities.                                         *)
(***************************************************************************)
IsCapabilityCall ==
    call.op \in {"DesignSystemCapability.execute", "Capability.execute"}

\* The capability execute was called on, and its input.
CalledCapability ==
    IF call.op = "Capability.execute" THEN call.args[1] ELSE "design-system"

CalledInput ==
    IF call.op = "Capability.execute" THEN call.args[2] ELSE call.args[1]

\* A string property that is missing, empty or made of white space only.
BlankText(value) ==
    ~value.has \/ \A i \in 1..Len(value.text) : value.text[i] \in WhitespaceChars

\* The invalid inputs: a blank brandName, a blank target or a targetType
\* outside the allowed set, a blank featureDescription, blank requirements,
\* neither description nor existingCode.
IsInvalidInput(id, input) ==
    CASE id = "design-system" ->
            BlankText([has |-> input.hasBrandName, text |-> input.brandName])
      [] id = "component-architecture" ->
            BlankText(input.description) /\ BlankText(input.existingCode)
      [] id = "accessibility-audit" ->
            \/ BlankText(input.target)
            \/ input.targetType \notin {"component-code", "html", "description"}
      [] id = "user-flow" -> BlankText(input.featureDescription)
      [] id = "wireframe" -> BlankText(input.requirements)
      [] id = "design-critique" ->
            \/ BlankText(input.target)
            \/ input.targetType
                   \notin {"ui-description", "component-code", "design-spec"}

\* The positions of the events of one kind.
EventsOfKind(kind) == {i \in 1..Len(events) : events[i].kind = kind}

\* C14: in every capability's execute the input is validated before the
\* model is contacted, and an invalid input is rejected with a UXPilotError
\* of code INVALID_INPUT without any call of the LLM client.
C14_ValidationBeforeModel ==
    IsCapabilityCall =>
        /\ \A i \in EventsOfKind("chatJSON") :
               \E j \in EventsOfKind("validateInput") : j < i
        /\ IsInvalidInput(CalledCapability, CalledInput) =>
               /\ err = UXPilotError("INVALID_INPUT")
               /\ llmCalls = <<>>
               /\ EventsOfKind("chatJSON") = {}
               /\ ret = <<>>

C14_Witness ==
    /\ call.op = "Capability.execute"
    /\ call.args[1] = "design-critique"
    /\ call.args[2] = [target |-> Text(<<"u", "i">>), targetType |-> "html"]
    /\ err = UXPilotError("INVALID_INPUT")
    /\ llmCalls = <<>>

(***************************************************************************)
(* Properties of the orchestrator.                                         *)
(***************************************************************************)
IsPilotCall == call.op = "UXPilot.execute"

UXPilotErrorCodes ==
    {"INVALID_INPUT", "LLM_ERROR", "CAPABILITY_NOT_FOUND", "PARSE_ERROR",
     "UNKNOWN"}

\* The call ran on a capability: a cached one or one loaded by the call.
PilotHasCapability ==
    IsPilotCall /\ (call.args[3] \/ EventsOfKind("new Capability") # {})

\* The reply the model gave to the invocation's request.
ModelFailed ==
    llmCalls # <<>> /\ llmCalls[1].reply.kind # "text"

ReplyIsNotJSON ==
    /\ llmCalls # <<>>
    /\ llmCalls[1].reply.kind = "text"
    /\ ~llmCalls[1].reply.body.json

\* C15: every rejection of UXPilot.execute is a UXPilotError: one raised by
\* loading or by the capability keeps its code (CAPABILITY_NOT_FOUND,
\* INVALID_INPUT, LLM_ERROR, PARSE_ERROR), anything else thrown becomes a
\* UXPilotError of code UNKNOWN with the capability id and the original
\* message.
C15_RejectionsAreUXPilotErrors ==
    (IsPilotCall /\ err # NoError) =>
        /\ err.name = "UXPilotError"
        /\ err.code \in UXPilotErrorCodes
        /\ err.code =
               IF ~PilotHasCapability THEN "CAPABILITY_NOT_FOUND"
               ELSE IF IsInvalidInput(call.args[1], call.args[2])
                   THEN "INVALID_INPUT"
               ELSE IF ModelFailed THEN "LLM_ERROR"
               ELSE IF ReplyIsNotJSON THEN "PARSE_ERROR"
               ELSE "UNKNOWN"
        /\ err.code = "UNKNOWN" =>
               /\ err.details.capabilityId = call.args[1]
               /\ err.details.originalError
                      = "Cannot read properties of undefined"

C15_Witness ==
    /\ IsPilotCall
    /\ call.args[1] = "accessibility-audit"
    /\ llmCalls # <<>>
    /\ llmCalls[1].reply.body = [json |-> TRUE, fields |-> {"passedCriteria"}]
    /\ err.code = "UNKNOWN"
    /\ err.details.capabilityId = "accessibility-audit"

\* C17: when the model's reply, its code fences removed, is no JSON,
\* chatJSON rejects with a UXPilotError of code PARSE_ERROR, not the
\* LLM_ERROR of an API failure and not a raw SyntaxError, and the caller of
\* UXPilot.execute gets that error unchanged.
C17_ParseErrorIsDistinct ==
    (IsCapabilityCall \/ IsPilotCall) =>
        /\ ReplyIsNotJSON => err = UXPilotError("PARSE_ERROR")
        /\ ModelFailed => err = UXPilotError("LLM_ERROR")

C17_Witness ==
    /\ IsPilotCall
    /\ call.args[1] = "design-system"
    /\ llmCalls # <<>>
    /\ llmCalls[1].reply = [kind |-> "text", fenced |-> TRUE, body |-> NotJSON]
    /\ err = UXPilotError("PARSE_ERROR")

\* The top-level fields of the parsed reply.
ReplyFields ==
    LET body == llmCalls[1].reply.body
    IN  IF "fields" \in DOMAIN body THEN body.fields ELSE FieldsOf(body)

\* The reply is JSON but lacks a field of the expected shape.
ReplyLacksField ==
    /\ llmCalls # <<>>
    /\ llmCalls[1].reply.kind = "text"
    /\ llmCalls[1].reply.body.json
    /\ ReplyFields # ExpectedFields(llmCalls[1].capability)

\* C18: the model's reply is validated against the expected shape before
\* use: a reply that is well-formed JSON but lacks an expected field is
\* rejected before any of its fields is read for the output or the report.
C18_ReplyValidatedBeforeUse ==
    ((IsCapabilityCall \/ IsPilotCall) /\ ReplyLacksField) =>
        (err # NoError /\ ret = <<>> /\ EventsOfKind("read") = {})

(***************************************************************************)
(* Properties of the MCP tool-call handler.                                *)
(***************************************************************************)
IsToolCall == call.op = "CallTool"

ToolIsUnknown ==
    call.args[1] \notin {"ux_design_system", "ux_component_architecture",
                         "ux_accessibility_audit", "ux_user_flow",
                         "ux_wireframe", "ux_design_critique"}

\* ANTHROPIC_API_KEY is unset (or set to the empty string).
KeyIsMissing == ~call.args[3].has \/ call.args[3].text = <<>>

IsErrorResponse(response) ==
    "isError" \in DOMAIN response /\ response.isError = TRUE

\* The run got as far as a complete reply: the capability was constructed,
\* the model answered, and the answer is JSON with every expected field.
ReplyIsComplete ==
    /\ EventsOfKind("new Capability") # {}
    /\ llmCalls # <<>>
    /\ llmCalls[1].reply.kind = "text"
    /\ llmCalls[1].reply.body.json
    /\ ReplyFields = ExpectedFields(llmCalls[1].capability)

\* C19: the tool-call handler answers every request with a response and
\* never throws: an unknown tool, a missing key and any error of the
\* construction, the transformation or the execution give a response with
\* isError true and one text item; a successful execution gives a response
\* without isError whose text is the serialized result.
C19_HandlerAlwaysResponds ==
    IsToolCall =>
        /\ err = NoError
        /\ Len(ret) = 1
        /\ DOMAIN ret[1] \subseteq {"content", "isError"}
        /\ Len(ret[1].content) = 1
        /\ ret[1].content[1].type = "text"
        /\ "isError" \in DOMAIN ret[1] => ret[1].isError = TRUE
        /\ (\/ ToolIsUnknown
            \/ KeyIsMissing
            \/ EventsOfKind("new Capability") = {}
            \/ llmCalls = <<>>
            \/ ModelFailed
            \/ ReplyIsNotJSON) => IsErrorResponse(ret[1])
        /\ ReplyIsComplete =>
               /\ "isError" \notin DOMAIN ret[1]
               /\ "stringified" \in DOMAIN ret[1].content[1].text
               /\ llmCalls[1].capability = "design-system" =>
                      ret[1].content[1].text.stringified.contrastReport
                          = llmCalls[1].reply.body.contrastReport

C19_Witness ==
    /\ IsToolCall
    /\ call.args[1] = "ux_design_system"
    /\ "isError" \notin DOMAIN ret[1]
    /\ Len(ret[1].content[1].text.stringified.contrastReport) = 2

\* C20: a tool call that names an unknown tool or arrives while
\* ANTHROPIC_API_KEY is unset returns its error response without
\* constructing a UXPilot, loading a capability or calling the model, and an
\* unknown tool is reported as "Unknown tool" even when the key is missing
\* too.
C20_KeyRequiredBeforeWork ==
    (IsToolCall /\ (ToolIsUnknown \/ KeyIsMissing)) =>
        /\ IsErrorResponse(ret[1])
        /\ events = <<>>
        /\ llmCalls = <<>>
        /\ ret[1].content[1].text =
               IF ToolIsUnknown
                   THEN [says |-> "Unknown tool", about |-> call.args[1]]
                   ELSE [says |-> "ANTHROPIC_API_KEY is not set",
                         about |-> ""]

C20_Witness ==
    /\ IsToolCall
    /\ ToolIsUnknown
    /\ ~call.args[3].has
    /\ ret[1].content[1].text.says = "Unknown tool"
    /\ ret[1].isError
    /\ events = <<>>

(***************************************************************************)
(* Properties of the capability cache.                                     *)
(***************************************************************************)
\* C16: a UXPilot loads each capability on first use and caches it: over any
\* execute calls on one instance, overlapping ones included, at most one
\* instance of a capability is ever constructed, and a call that runs its
\* capability runs the cached instance.
C16_OneInstancePerCapability ==
    /\ \A id \in CapabilityIds : constructed[id] <= 1
    /\ \A c \in Callers :
           callers[c].pc = "executing" =>
               callers[c].instance = capabilities[callers[c].id]

(***************************************************************************)
(* C21                                                                     *)
(***************************************************************************)
IsPrintCall == call.op = "printResult"

\* The text of the string-valued markdownReport property of a result, in a
\* one-element set; empty when the result has no such property.
StringReportsOf(result) ==
    IF result.type # "object" THEN {}
    ELSE {result.properties[i].value.text :
              i \in {j \in 1..Len(result.properties) :
                        /\ result.properties[j].key = "markdownReport"
                        /\ result.properties[j].value.type = "string"}}

\* The line that shows JSON.stringify(result, null, 2).
SerializedLine(result) == ConsoleLog(JSONStringify(result)).what

\* C21: printResult writes exactly one line.  With --json it is the JSON
\* serialization of the result; without it, a string result as it is, the
\* markdownReport of an object whose markdownReport is a string, and the
\* JSON serialization otherwise.
C21_PrintsOneForm ==
    IsPrintCall =>
        LET result == call.args[1]
            json   == call.args[2]
        IN  /\ Len(events) = 1
            /\ events[1].kind = "console.log"
            /\ IF json = "true"
                   THEN events[1].what = SerializedLine(result)
               ELSE IF result.type = "string"
                   THEN events[1].what = result.text
               ELSE IF StringReportsOf(result) # {}
                   THEN events[1].what \in StringReportsOf(result)
                   ELSE events[1].what = SerializedLine(result)

\* A result with a report after another property is printed as the report
\* alone without --json, and as JSON, which differs, with it.
C21_Witness ==
    /\ IsPrintCall
    /\ call.args[1].type = "object"
    /\ Len(call.args[1].properties) = 2
    /\ StringReportsOf(call.args[1]) = { <<"a", "\"", "b">> }
    /\ call.args[2] = "undefined"
    /\ events = << ConsoleLog(Text(<<"a", "\"", "b">>)) >>
    /\ SerializedLine(call.args[1]) # <<"a", "\"", "b">>

(***************************************************************************)
(* C22                                                                     *)
(***************************************************************************)
IsAuditCall == call.op = "AccessibilityAudit.execute"

\* The rules of WCAG_RULES whose level is one of levels, as a set.
RulesOfLevels(levels) ==
    {WCAG_RULES[i] : i \in {j \in 1..Len(WCAG_RULES) :
                                WCAG_RULES[j].level \in levels}}

\* The rules a prompt carries, as a set.
RulesIn(request) ==
    {request.userMessage.rulesSummary[i] :
         i \in 1..Len(request.userMessage.rulesSummary)}

\* C22: the prompt of the audit carries exactly the rules of level A for
\* level A, exactly those of level A or AA for level AA and when no level is
\* given, and every rule for level AAA, each rule once; the rules for A are
\* among those for AA, which are among those for AAA.
C22_RulesFilteredByLevel ==
    IsAuditCall /\ err = NoError =>
        LET given == call.args[1].wcagLevel
            rules == RulesIn(llmCalls[1])
        IN  /\ Len(llmCalls) = 1
            /\ Cardinality(rules) = Len(llmCalls[1].userMessage.rulesSummary)
            /\ given = "A" => rules = RulesOfLevels({"A"})
            /\ given \in {"AA", "undefined"} =>
                   rules = RulesOfLevels({"A", "AA"})
            /\ given = "AAA" => rules = RulesOfLevels({"A", "AA", "AAA"})
            /\ RulesOfLevels({"A"}) \subseteq rules
            /\ rules \subseteq RulesOfLevels({"A", "AA", "AAA"})
            /\ given = "A" => llmCalls[1].userMessage.level = "A"
            /\ given = "undefined" => llmCalls[1].userMessage.level = "AA"

\* An audit at level A, whose prompt leaves out the rules of level AA.
C22_Witness ==
    /\ IsAuditCall
    /\ err = NoError
    /\ call.args[3] = Text(<<"2", ".", "2", "-", "A">>)
    /\ call.args[1].wcagLevel = "A"
    /\ RulesIn(llmCalls[1]) = RulesOfLevels({"A"})
    /\ RulesOfLevels({"AA"}) # {}
    /\ RulesOfLevels({"AA"}) \cap RulesIn(llmCalls[1]) = {}

(***************************************************************************)
(* C23                                                                     *)
(***************************************************************************)
IsCritiqueCall == call.op = "DesignCritique.execute"

\* C23: the overallScore a critique returns is an integer from 0 to 100.
C23_OverallScoreInRange ==
    IsCritiqueCall /\ err = NoError =>
        /\ ret[1].overallScore.type = "number"
        /\ ret[1].overallScore.value \in 0..100

(***************************************************************************)
(* C24                                                                     *)
(***************************************************************************)
\* The place of a severity in the ranking critical, major, minor.
RankOf(severity) ==
    IF severity = "critical" THEN 0 ELSE IF severity = "major" THEN 1 ELSE 2

RankedSeverities == {"critical", "major", "minor"}

\* Whether listed shows every finding of findings exactly once: some
\* one-to-one matching of the positions pairs equal findings.
ListsEachOnce(listed, findings) ==
    /\ Len(listed) = Len(findings)
    /\ \E p \in [1..Len(findings) -> 1..Len(findings)] :
           /\ \A i, j \in 1..Len(findings) : p[i] = p[j] => i = j
           /\ \A i \in 1..Len(findings) :
                  /\ listed[i].criterion = findings[p[i]].criterion
                  /\ listed[i].severity = findings[p[i]].severity

\* C24: the report of an audit lists every finding of the reply once,
\* numbered 1..n, critical before major before minor, and the findings
\* returned next to the report are those of the reply in their order.
C24_FindingsSeverityRanked ==
    IsAuditCall /\ err = NoError =>
        LET findings == call.args[2].findings
            listed   == ret[1].markdownReport.findings
        IN  /\ ret[1].findings = findings
            /\ ListsEachOnce(listed, findings)
            /\ \A i \in 1..Len(listed) : listed[i].number = i
            /\ \A i, j \in 1..Len(listed) :
                   /\ i < j
                   /\ listed[i].severity \in RankedSeverities
                   /\ listed[j].severity \in RankedSeverities
                   => RankOf(listed[i].severity) <= RankOf(listed[j].severity)

(***************************************************************************)
(* C25                                                                     *)
(***************************************************************************)
\* Whether the decimal string a denotes a number no less than b does.
DecimalGeq(a, b) ==
    ParseDecimal(a).num * ParseDecimal(b).den
        >= ParseDecimal(b).num * ParseDecimal(a).den

\* C25: along the scale generateTypeScale returns, for every base size and
\* every ratio argument, the suggested weight never decreases, from 400 at
\* xs to 800 at display, and the suggested line-height never increases,
\* from 1.5 at xs to 1.1 at display.
C25_HeavierAndTighterUpTheScale ==
    call.op = "generateTypeScale" =>
        /\ Len(ret) = 10
        /\ ret[1].name = "xs" /\ ret[10].name = "display"
        /\ ret[1].suggestedWeight = 400 /\ ret[10].suggestedWeight = 800
        /\ ret[1].suggestedLineHeight = <<"1", ".", "5">>
        /\ ret[10].suggestedLineHeight = <<"1", ".", "1">>
        /\ \A i, j \in 1..Len(ret) :
               i < j =>
                   /\ ret[i].suggestedWeight <= ret[j].suggestedWeight
                   /\ DecimalGeq(ret[i].suggestedLineHeight,
                                 ret[j].suggestedLineHeight)

\* A scale where the weight rises and the line-height falls between two
\* neighbouring steps, and both stay between two others.
C25_Witness ==
    /\ call.op = "generateTypeScale"
    /\ call.args = <<16 * BaseDen, "golden-ratio">>
    /\ ret[4].suggestedWeight = 400 /\ ret[5].suggestedWeight = 500
    /\ ret[4].suggestedLineHeight = <<"1", ".", "4", "5">>
    /\ ret[5].suggestedLineHeight = <<"1", ".", "4">>
    /\ ret[1].suggestedWeight = ret[2].suggestedWeight
    /\ ret[1].suggestedLineHeight = ret[2].suggestedLineHeight
    /\ ret[5].px.num > ret[4].px.num

(***************************************************************************)
(* C26                                                                     *)
(***************************************************************************)
IsPositiveBaseCall == IsKnownRatioCall /\ call.args[1] > 0

\* C26 as stated: for every ratio name and every positive base size the px
\* values are strictly increasing from the first step to the last.
C26_PxStrictlyIncreasing ==
    IsPositiveBaseCall =>
        \A i \in 1..(Len(ret) - 1) : ret[i].px.num < ret[i + 1].px.num

\* C26: for every ratio name and every positive base size the px values
\* never decrease from the first step to the last, and they are strictly
\* increasing when the base size is at least 1 px.
C26_PxIncreasingFromOnePx ==
    IsPositiveBaseCall =>
        /\ \A i \in 1..Len(ret) : ~ret[i].px.nan /\ ret[i].px.den = 100
        /\ \A i \in 1..(Len(ret) - 1) : ret[i].px.num <= ret[i + 1].px.num
        /\ call.args[1] >= BaseDen =>
               \A i \in 1..(Len(ret) - 1) : ret[i].px.num < ret[i + 1].px.num

\* A scale of base size 1 px with the smallest ratio, strictly increasing
\* by as little as 0.06 px between its first steps.
C26_Witness ==
    /\ call.op = "generateTypeScale"
    /\ call.args = <<BaseDen, "minor-second">>
    /\ ret[1].px = Num(88, 100)
    /\ ret[2].px = Num(94, 100)
    /\ ret[3].px = Num(100, 100)
    /\ ret[10].px.num > ret[9].px.num

====
